---- MODULE Spec2Model ----
(***************************************************************************)
(* Verification model of the BOM Matrix / Quote Win workbook validators.   *)
(*                                                                         *)
(* Text is modelled as a sequence of symbols.  A symbol is one character   *)
(* (a digit, ".", " ", "$", ...) or an indivisible run of characters (a    *)
(* word such as "Uncosted Parts").  Python's str operations (strip, in,    *)
(* split, isdigit, int, upper) are computed on these sequences.            *)
(*                                                                         *)
(* A cell value is a record [t, n, s]: t is the Python type of the value   *)
(* ("none", "num", "str", "bool", "date"), n its number and s its text.    *)
(* A sheet is a function from the populated <<row, column>> pairs to       *)
(* cells; every other cell reads as empty with number format "General".   *)
(***************************************************************************)
EXTENDS Integers, Sequences, FiniteSets, TLC

VARIABLES
    workbook,            \* BOM ExcelValidator.workbook: [sheetnames, sheets]
    results,             \* the list of ValidationResult a rule run returned
    pc,                  \* position of the run: "ready" before, "done" after
    cell,                \* the cell handed to the currency heuristic
    ret,                 \* the heuristic's return value
    input_sheet,         \* Quote Win ExcelValidator.input_sheet
    validation_results,  \* Quote Win ExcelValidator.validation_results
    comments,            \* Quote Win: cell coordinate -> comment written to it
    fills,               \* Quote Win: cell coordinates given the yellow fill
    qw_results,          \* the list run_quote_win_validation returns
    sessions,            \* the route's session store: session id -> session
    temp_files,          \* the temp directory: path -> the bytes written there
    request,             \* the last /validate request: file, type, session id
    response             \* what the last /validate request was answered

vars == <<workbook, results, pc, cell, ret, input_sheet, validation_results,
          comments, fills, qw_results, sessions, temp_files, request, response>>

-----------------------------------------------------------------------------
(* Text                                                                    *)

Digits == <<"0", "1", "2", "3", "4", "5", "6", "7", "8", "9">>

IsDigitSym(c) == \E i \in 1..10 : Digits[i] = c

DigitVal(c) == (CHOOSE i \in 1..10 : Digits[i] = c) - 1

\* str.isdigit(): non-empty and every character a digit
isdigit(s) == Len(s) > 0 /\ \A i \in 1..Len(s) : IsDigitSym(s[i])

\* int(s) for a digit string
RECURSIVE int(_)
int(s) == IF Len(s) = 0 THEN 0
          ELSE 10 * int(SubSeq(s, 1, Len(s) - 1)) + DigitVal(s[Len(s)])

IsSpace(c) == c \in {" ", "\n", "\t"}

\* str.strip(): leading and trailing whitespace removed
RECURSIVE lstrip(_)
lstrip(s) == IF Len(s) > 0 /\ IsSpace(s[1]) THEN lstrip(Tail(s)) ELSE s

RECURSIVE rstrip(_)
rstrip(s) == IF Len(s) > 0 /\ IsSpace(s[Len(s)])
             THEN rstrip(SubSeq(s, 1, Len(s) - 1)) ELSE s

strip(s) == rstrip(lstrip(s))

\* sub in s
Contains(s, sub) ==
    \E i \in 1..(Len(s) + 1) :
        i + Len(sub) - 1 <= Len(s) /\ SubSeq(s, i, i + Len(sub) - 1) = sub

\* s.startswith(pre)
startswith(s, pre) == Len(s) >= Len(pre) /\ SubSeq(s, 1, Len(pre)) = pre

\* s.endswith(suf)
endswith(s, suf) ==
    Len(s) >= Len(suf) /\ SubSeq(s, Len(s) - Len(suf) + 1, Len(s)) = suf

\* any(symbol in s for symbol in symbols), symbols being single characters
ContainsAny(s, symbols) == \E i \in 1..Len(s) : s[i] \in symbols

\* index of the first occurrence of character c in s, 0 when there is none
FirstIndex(s, c) ==
    IF \E i \in 1..Len(s) : s[i] = c
    THEN CHOOSE i \in 1..Len(s) : s[i] = c /\ \A j \in 1..(i - 1) : s[j] # c
    ELSE 0

\* s.split(c)[0]: the text before the first c (all of s when c is absent)
SplitHead(s, c) ==
    IF FirstIndex(s, c) = 0 THEN s ELSE SubSeq(s, 1, FirstIndex(s, c) - 1)

\* s.split(c, 1)[1]: the text after the first c
SplitRest(s, c) == SubSeq(s, FirstIndex(s, c) + 1, Len(s))

\* the decimal digits of a natural number
RECURSIVE DigitsOf(_)
DigitsOf(n) == IF n < 10 THEN <<Digits[n + 1]>>
               ELSE DigitsOf(n \div 10) \o <<Digits[(n % 10) + 1]>>

\* str(n) of a number
NumText(n) == IF n < 0 THEN <<"-">> \o DigitsOf(-n) ELSE DigitsOf(n)

-----------------------------------------------------------------------------
(* Cell values, cells and sheets                                           *)

None == [t |-> "none", n |-> 0, s |-> <<>>]
Num(k) == [t |-> "num", n |-> k, s |-> <<>>]
Str(x) == [t |-> "str", n |-> 0, s |-> x]
Bool(b) == [t |-> "bool", n |-> IF b THEN 1 ELSE 0, s |-> <<>>]
\* a datetime value, s being its str()
Date(x) == [t |-> "date", n |-> 0, s |-> x]

IsNone(v) == v.t = "none"
IsStr(v) == v.t = "str"
\* isinstance(v, (int, float)): Python's bool is an int
IsNumber(v) == v.t \in {"num", "bool"}

\* Python truthiness of a cell value
Truthy(v) ==
    CASE v.t = "none" -> FALSE
      [] v.t = "num" -> v.n # 0
      [] v.t = "bool" -> v.n = 1
      [] v.t = "str" -> Len(v.s) > 0
      [] OTHER -> TRUE

\* str(v)
StrOf(v) ==
    CASE v.t = "none" -> <<"None">>
      [] v.t = "num" -> NumText(v.n)
      [] v.t = "bool" -> IF v.n = 1 THEN <<"True">> ELSE <<"False">>
      [] OTHER -> v.s

General == <<"General">>

Cell(v, fmt) == [value |-> v, number_format |-> fmt]

EmptyCell == Cell(None, General)

\* sheet.cell(row=r, column=c)
CellAt(sheet, r, c) ==
    IF <<r, c>> \in DOMAIN sheet THEN sheet[<<r, c>>] ELSE EmptyCell

Max(S) == CHOOSE x \in S : \A y \in S : y <= x
Min(S) == CHOOSE x \in S : \A y \in S : x <= y

\* sheet.max_row: 1 for a sheet with no cell
max_row(sheet) ==
    IF DOMAIN sheet = {} THEN 1 ELSE Max({rc[1] : rc \in DOMAIN sheet})

max_column(sheet) ==
    IF DOMAIN sheet = {} THEN 1 ELSE Max({rc[2] : rc \in DOMAIN sheet})

\* a sheet from a set of <<row, column, cell>> triples; a cell with neither
\* a value nor a format of its own is not stored
SheetOf(triples) ==
    [rc \in {<<x[1], x[2]>> : x \in {y \in triples : y[3] # EmptyCell}} |->
        (CHOOSE x \in triples : x[1] = rc[1] /\ x[2] = rc[2])[3]]

\* the sheet `sheet` with the cells of `over` written over it
Overlay(sheet, over) ==
    [rc \in DOMAIN sheet \cup DOMAIN over |->
        IF rc \in DOMAIN over THEN over[rc] ELSE sheet[rc]]

EmptySheet == SheetOf({})

-----------------------------------------------------------------------------
(* Format heuristics                                                       *)

FormatCurrencySymbols == {"$", "€", "£", "¥", "₹", "¤"}
ValueCurrencySymbols == {"$", "€", "£", "¥", "₹"}

_has_currency_format_or_symbol(c) ==
    IF Len(c.number_format) > 0
       /\ ContainsAny(c.number_format, FormatCurrencySymbols)
    THEN TRUE
    ELSE IF ~IsNone(c.value) /\ ContainsAny(StrOf(c.value), ValueCurrencySymbols)
         THEN TRUE
         ELSE FALSE

-----------------------------------------------------------------------------
(* Workbooks and verdict records                                           *)

Workbook(names, sheets) == [sheetnames |-> names, sheets |-> sheets]

\* name in self.workbook.sheetnames
HasSheet(wb, name) == \E i \in 1..Len(wb.sheetnames) : wb.sheetnames[i] = name

\* self.workbook[name]
SheetNamed(wb, name) == wb.sheets[name]

\* every sheet name of the workbook, in workbook order
AllSheetNames(wb) == wb.sheetnames

EmptyWorkbook == Workbook(<<>>, <<>>)

ValidationResult(rule_name, sheet_name, status, expected, actual, location) ==
    [rule_name |-> rule_name, sheet_name |-> sheet_name, status |-> status,
     expected |-> expected, actual |-> actual, location |-> location]

NoLocation == <<>>

MissingNotes == <<"Missing Notes">>
AClassParts == <<"A CLASS PARTS">>
BomMatrix == <<"BOM MATRIX">>
Summary == <<"Summary">>
LeadTimeFGWise == <<"Lead Time (FG Wise)">>
CbomProto == <<"7.0 CBOM Proto">>
ExInvProto == <<"Ex Inv VL-proto">>
NotApplicable == <<"N/A">>

\* sep.join(items) for a sequence of texts
RECURSIVE Join(_, _)
Join(items, sep) ==
    IF Len(items) = 0 THEN <<>>
    ELSE IF Len(items) = 1 THEN items[1]
    ELSE items[1] \o sep \o Join(Tail(items), sep)

\* items[:n]
Take(items, n) == SubSeq(items, 1, IF Len(items) < n THEN Len(items) ELSE n)

-----------------------------------------------------------------------------
(* Rule 16: serial number standardization                                  *)

Rule16Name == <<"Rule 16: Serial Number Standardization">>

SectionScanLimit == 1000
MismatchesShown == 3
SectionsShown == 5

\* the cell is a numbered section header: text with a "." whose prefix,
\* stripped, is a digit string
IsNumberedSection(c) ==
    /\ Truthy(c.value) /\ IsStr(c.value)
    /\ LET value == strip(c.value.s) IN
        /\ FirstIndex(value, ".") # 0
        /\ isdigit(strip(SplitHead(value, ".")))

SectionOf(row, c) ==
    LET value == strip(c.value.s) IN
    [row |-> row,
     serial |-> int(strip(SplitHead(value, "."))),
     text |-> strip(SplitRest(value, "."))]

\* numbered_sections: the section headers of column A in rows 1..last
RECURSIVE NumberedSectionsUpTo(_, _)
NumberedSectionsUpTo(sheet, last) ==
    IF last = 0 THEN <<>>
    ELSE LET before == NumberedSectionsUpTo(sheet, last - 1)
             c == CellAt(sheet, last, 1)
         IN IF IsNumberedSection(c) THEN Append(before, SectionOf(last, c))
            ELSE before

NumberedSections(sheet) ==
    NumberedSectionsUpTo(sheet, Min({max_row(sheet) + 1, SectionScanLimit}) - 1)

\* the serials are 1..N in some order
IsPermutation(sections) ==
    {sections[i].serial : i \in 1..Len(sections)} = 1..Len(sections)

\* serial_numbers == expected_sequence
IsSequential(sections) == \A i \in 1..Len(sections) : sections[i].serial = i

MismatchText(section, expected_num) ==
    <<"Row ", ToString(section.row), ": Expected ", ToString(expected_num),
      ", Found ", ToString(section.serial)>>

\* mismatches, in section order
RECURSIVE MismatchesUpTo(_, _)
MismatchesUpTo(sections, last) ==
    IF last = 0 THEN <<>>
    ELSE LET before == MismatchesUpTo(sections, last - 1) IN
         IF sections[last].serial # last
         THEN Append(before, MismatchText(sections[last], last))
         ELSE before

SectionListText(sections) ==
    Join([i \in 1..Len(Take(sections, SectionsShown)) |->
            <<ToString(sections[i].serial), ". ">> \o sections[i].text], <<", ">>)
    \o (IF Len(sections) > SectionsShown
        THEN <<" (and ", ToString(Len(sections) - SectionsShown), " more)">>
        ELSE <<>>)

validate_rule16_serial_number_standardization(wb) ==
    IF ~HasSheet(wb, MissingNotes)
    THEN <<ValidationResult(Rule16Name, MissingNotes, "FAIL",
              <<"Sheet 'Missing Notes' should exist">>,
              <<"Sheet not found">>, NoLocation)>>
    ELSE LET numbered_sections == NumberedSections(SheetNamed(wb, MissingNotes)) IN
         IF Len(numbered_sections) = 0
         THEN <<ValidationResult(Rule16Name, MissingNotes, "FAIL",
                   <<"Numbered section headers should be present">>,
                   <<"No numbered sections found in Missing Notes">>, NoLocation)>>
         ELSE IF IsSequential(numbered_sections)
         THEN <<ValidationResult(Rule16Name, MissingNotes, "PASS",
                   <<"Serial numbers in sequential order (1, 2, 3...)">>,
                   <<"Serial numbers are in standard format (",
                     ToString(Len(numbered_sections)), " sections found)">>,
                   <<"Sections: ">> \o SectionListText(numbered_sections))>>
         ELSE <<ValidationResult(Rule16Name, MissingNotes, "FAIL",
                   <<"Serial numbers should be sequential (1, 2, 3, 4...)">>,
                   <<"Serial number mismatch: ">>
                   \o Join(Take(MismatchesUpTo(numbered_sections,
                                               Len(numbered_sections)),
                                MismatchesShown), <<"; ">>),
                   NoLocation)>>

-----------------------------------------------------------------------------
(* Sheet-family resolution: the last '7.0 CBOM VL-{X}' sheet               *)

CbomVLPrefix == "7.0 CBOM VL-"

\* re.match(r'^7\.0 CBOM VL-(\d+)$', name)
MatchesCbomVL(name) ==
    Len(name) >= 2 /\ name[1] = CbomVLPrefix /\ isdigit(Tail(name))

\* int(match.group(1))
CbomVLNumber(name) == int(Tail(name))

\* a < b for two digit strings compared as Python compares str
RECURSIVE DigitTextLess(_, _)
DigitTextLess(a, b) ==
    IF Len(b) = 0 THEN FALSE
    ELSE IF Len(a) = 0 THEN TRUE
    ELSE IF DigitVal(a[1]) # DigitVal(b[1]) THEN DigitVal(a[1]) < DigitVal(b[1])
    ELSE DigitTextLess(Tail(a), Tail(b))

\* name_a < name_b alone: the order a sort of the bare names would give
CbomNameLess(a, b) == DigitTextLess(Tail(a), Tail(b))

\* (num_a, name_a) < (num_b, name_b): the order cbom_sheets.sort() sorts by
CbomSortKeyLess(a, b) ==
    \/ CbomVLNumber(a) < CbomVLNumber(b)
    \/ CbomVLNumber(a) = CbomVLNumber(b) /\ DigitTextLess(Tail(a), Tail(b))

\* the names of cbom_sheets
CbomSheets(wb) ==
    {wb.sheetnames[i] : i \in {j \in 1..Len(wb.sheetnames) :
                                    MatchesCbomVL(wb.sheetnames[j])}}

\* cbom_sheets.sort(); cbom_sheets[-1]
LastCbomName(wb) ==
    CHOOSE name \in CbomSheets(wb) :
        \A other \in CbomSheets(wb) \ {name} : CbomSortKeyLess(other, name)

-----------------------------------------------------------------------------
(* Rule 18: uncosted parts count                                           *)

Rule18Name == <<"Rule 18: Part count is not matching for uncosted parts">>

UncostedScanLimit == 500
SlNoColLimit == 20
SlNoRowOffsetLimit == 5
SlNoScanLimit == 1000
IsDataCol == 32
IsDataScanLimit == 50
PartNumberColLimit == 50

\* str.upper() of one symbol: the lower-case symbols the sheets may hold
UpperSym(c) ==
    CASE c = "n" -> "N" [] c = "o" -> "O" [] c = "l" -> "L" [] c = "i" -> "I"
      [] c = "s" -> "S" [] c = "false" -> "FALSE" [] c = "False" -> "FALSE"
      [] c = "true" -> "TRUE" [] c = "True" -> "TRUE"
      [] c = "Notes" -> "NOTES" [] c = "Part" -> "PART"
      [] c = "nrfnd" -> "NRFND" [] c = "Nrfnd" -> "NRFND"
      [] c = "Proto Pricing No Cost" -> "PROTO PRICING NO COST"
      [] c = "proto pricing no cost" -> "PROTO PRICING NO COST"
      [] OTHER -> c

upper(s) == [i \in 1..Len(s) |-> UpperSym(s[i])]

\* len(s) in characters
RECURSIVE CharLen(_)
CharLen(s) == IF Len(s) = 0 THEN 0 ELSE Len(s[1]) + CharLen(Tail(s))

SlNoPatterns ==
    {<<"S", "L", ".", "N", "O">>, <<"S", "I", ".", "N", "O">>,
     <<"S", ".", "N", "O">>, <<"S", "L", "N", "O">>, <<"S", "I", "N", "O">>}

UncostedRows(sheet) ==
    {r \in 1..(UncostedScanLimit - 1) :
        LET c == CellAt(sheet, r, 1) IN
        Truthy(c.value) /\ IsStr(c.value)
        /\ Contains(c.value.s, <<"Uncosted Parts">>)}

IsSlNoHeader(c) ==
    /\ Truthy(c.value) /\ IsStr(c.value)
    /\ \E pattern \in SlNoPatterns : Contains(upper(c.value.s), pattern)

\* the <<column, row>> places of a serial sub-header under the section
SlNoPlaces(sheet, uncosted_row) ==
    {p \in {<<col, uncosted_row + off>> :
                col \in 1..(SlNoColLimit - 1), off \in 1..(SlNoRowOffsetLimit - 1)} :
        IsSlNoHeader(CellAt(sheet, p[2], p[1]))}

\* the first place in column-major order
FirstSlNoPlace(places) ==
    CHOOSE p \in places :
        \A q \in places : p[1] < q[1] \/ (p[1] = q[1] /\ p[2] <= q[2])

\* the row opens the next section: "2. NCNR Mentioned"
IsNextSection(c) ==
    /\ Truthy(c.value) /\ IsStr(c.value)
    /\ LET v == strip(c.value.s) IN
        /\ CharLen(v) > 2
        /\ IsDigitSym(v[1])
        /\ \E i \in 1..(Len(v) - 1) :
            v[i] = "." /\ v[i + 1] = " " /\ CharLen(SubSeq(v, 1, i + 1)) <= 4

\* current_val of a serial cell: <<n>>, or <<>> for None
SerialValue(c) ==
    IF ~Truthy(c.value) THEN <<>>
    ELSE IF IsNumber(c.value) THEN <<c.value.n>>
    ELSE IF IsStr(c.value) /\ isdigit(strip(c.value.s))
         THEN <<int(strip(c.value.s))>>
         ELSE <<>>

\* last_sl_no after the rows from..to, starting from `last`; the scan stops
\* at the first row that opens the next section
RECURSIVE LastSlNoFrom(_, _, _, _, _)
LastSlNoFrom(sheet, col, from, to, last) ==
    IF from > to \/ IsNextSection(CellAt(sheet, from, 1)) THEN last
    ELSE LET v == SerialValue(CellAt(sheet, from, col)) IN
         LastSlNoFrom(sheet, col, from + 1, to, IF v # <<>> THEN v ELSE last)

LastSlNo(sheet, col, header_row) ==
    LastSlNoFrom(sheet, col, header_row + 1,
                 Min({header_row + SlNoScanLimit, max_row(sheet) + 1}) - 1, <<>>)

IsDataRows(sheet) ==
    {r \in 1..(IsDataScanLimit - 1) :
        LET c == CellAt(sheet, r, IsDataCol) IN
        Truthy(c.value) /\ IsStr(c.value) /\ Contains(c.value.s, <<"Is Data">>)}

PartNumberCols(sheet, row) ==
    {col \in 1..(PartNumberColLimit - 1) :
        LET c == CellAt(sheet, row, col) IN
        Truthy(c.value) /\ IsStr(c.value) /\ strip(c.value.s) = <<"Part Number">>}

\* is_data_cell.value is False, or the text 'false' in any case
IsFalse(v) ==
    \/ v.t = "bool" /\ v.n = 0
    \/ IsStr(v) /\ upper(v.s) = <<"FALSE">>

\* the flagged rows themselves, a part number counted once per row
FalsePartRows(sheet, is_data_row, part_number_col) ==
    {q \in (is_data_row + 1)..max_row(sheet) :
        /\ IsFalse(CellAt(sheet, q, IsDataCol).value)
        /\ Truthy(CellAt(sheet, q, part_number_col).value)}

\* false_parts
FalseParts(sheet, is_data_row, part_number_col) ==
    {strip(StrOf(CellAt(sheet, r, part_number_col).value)) :
        r \in {q \in (is_data_row + 1)..max_row(sheet) :
                /\ IsFalse(CellAt(sheet, q, IsDataCol).value)
                /\ Truthy(CellAt(sheet, q, part_number_col).value)}}

Rule18Location(uncosted_header) == uncosted_header \o <<", Is Data, Part Number">>

Rule18Compare(last_sl_no, cbom_false_count, last_cbom_name, uncosted_header) ==
    IF last_sl_no = cbom_false_count
    THEN ValidationResult(Rule18Name, <<"Missing Notes, ">> \o last_cbom_name, "PASS",
            <<"Part count matching between Missing Notes and ">> \o last_cbom_name,
            <<"Part count is matching for uncosted part">>,
            Rule18Location(uncosted_header))
    ELSE ValidationResult(Rule18Name, <<"Missing Notes, ">> \o last_cbom_name, "FAIL",
            <<"Last SI.no (", ToString(last_sl_no),
              ") should match unique Part Number count with Is Data=False (",
              ToString(cbom_false_count), ")">>,
            <<"Part count is not matching for uncosted part (SI.no: ",
              ToString(last_sl_no), ", Is Data=False count: ",
              ToString(cbom_false_count), ")">>,
            Rule18Location(uncosted_header))

Rule18Cbom(wb, last_sl_no, uncosted_header) ==
    IF CbomSheets(wb) = {}
    THEN ValidationResult(Rule18Name, NotApplicable, "FAIL",
            <<"At least one '7.0 CBOM VL-{X}' sheet should exist">>,
            <<"No CBOM VL sheets found">>, Rule18Location(uncosted_header))
    ELSE LET last_cbom_name == LastCbomName(wb)
             cbom_sheet == SheetNamed(wb, last_cbom_name)
         IN
         IF IsDataRows(cbom_sheet) = {}
         THEN ValidationResult(Rule18Name, last_cbom_name, "FAIL",
                 <<"'Is Data' column should exist in column AF">>,
                 <<"'Is Data' column not found">>, Rule18Location(uncosted_header))
         ELSE LET is_data_row == Min(IsDataRows(cbom_sheet)) IN
              IF PartNumberCols(cbom_sheet, is_data_row) = {}
              THEN ValidationResult(Rule18Name, last_cbom_name, "FAIL",
                      <<"'Part Number' column should exist">>,
                      <<"'Part Number' column not found">>,
                      Rule18Location(uncosted_header))
              ELSE Rule18Compare(last_sl_no,
                      Cardinality(FalseParts(cbom_sheet, is_data_row,
                          Min(PartNumberCols(cbom_sheet, is_data_row)))),
                      last_cbom_name, uncosted_header)

validate_rule18_uncosted_parts_count(wb) ==
    IF ~HasSheet(wb, MissingNotes)
    THEN <<ValidationResult(Rule18Name, MissingNotes, "FAIL",
              <<"Sheet 'Missing Notes' should exist">>, <<"Sheet not found">>,
              <<"#. Uncosted Parts, Is Data, Part Number">>)>>
    ELSE LET missing_notes == SheetNamed(wb, MissingNotes) IN
         IF UncostedRows(missing_notes) = {}
         THEN <<ValidationResult(Rule18Name, MissingNotes, "FAIL",
                   <<"'#. Uncosted Parts' section should exist">>,
                   <<"'Uncosted Parts' section not found">>,
                   <<"#. Uncosted Parts, Is Data, Part Number">>)>>
         ELSE LET uncosted_row == Min(UncostedRows(missing_notes))
                  uncosted_header == strip(CellAt(missing_notes, uncosted_row, 1).value.s)
                  places == SlNoPlaces(missing_notes, uncosted_row)
              IN
              IF places = {}
              THEN <<ValidationResult(Rule18Name, MissingNotes, "FAIL",
                        <<"'SI.no' sub-header should exist under '#. Uncosted Parts'">>,
                        <<"'SI.no' sub-header not found">>,
                        Rule18Location(uncosted_header))>>
              ELSE LET place == FirstSlNoPlace(places)
                       last_sl_no == LastSlNo(missing_notes, place[1], place[2])
                   IN
                   IF last_sl_no = <<>>
                   THEN <<ValidationResult(Rule18Name, MissingNotes, "FAIL",
                             <<"At least one SI.no value under '#. Uncosted Parts'">>,
                             <<"No SI.no values found">>,
                             Rule18Location(uncosted_header))>>
                   ELSE <<Rule18Cbom(wb, last_sl_no[1], uncosted_header)>>

-----------------------------------------------------------------------------
(* Rule 19: CPN count per FG part                                          *)

Rule19Name == <<"Rule 19: CPN count is not matching">>

LtHeaderColLimit == 50
GrandTotalRowLimit == 100
FgSectionScanLimit == 2000
FgSectionRowLimit == 1000
FgKeyCol == 1
FgPartNumberCol == 3

LtInWeeks == "LT in weeks -"

\* s.replace("LT in weeks -", "")
RECURSIVE RemoveSym(_, _)
RemoveSym(s, sym) ==
    IF Len(s) = 0 THEN <<>>
    ELSE IF s[1] = sym THEN RemoveSym(Tail(s), sym)
    ELSE <<s[1]>> \o RemoveSym(Tail(s), sym)

IsLtHeader(c) ==
    Truthy(c.value) /\ IsStr(c.value) /\ Contains(c.value.s, <<LtInWeeks>>)

GrandTotalRows(lt_sheet, col) ==
    {r \in 2..(GrandTotalRowLimit - 1) :
        LET v == CellAt(lt_sheet, r, col).value IN
        Truthy(v) /\ IsStr(v) /\ Contains(v.s, <<"Grand Total">>)}

\* grand_total_value of the FG header in column col (None when there is no
\* 'Grand Total' row)
GrandTotalValue(lt_sheet, col) ==
    IF GrandTotalRows(lt_sheet, col) = {} THEN None
    ELSE CellAt(lt_sheet, Min(GrandTotalRows(lt_sheet, col)), col + 1).value

\* fg_parts, for header columns 1..last: a sequence of [fg_part, count]
RECURSIVE FgPartsUpTo(_, _)
FgPartsUpTo(lt_sheet, last) ==
    IF last = 0 THEN <<>>
    ELSE LET before == FgPartsUpTo(lt_sheet, last - 1)
             header_cell == CellAt(lt_sheet, 1, last)
         IN IF IsLtHeader(header_cell)
               /\ ~IsNone(GrandTotalValue(lt_sheet, last))
            THEN Append(before,
                    [fg_part |-> strip(RemoveSym(header_cell.value.s, LtInWeeks)),
                     count |-> GrandTotalValue(lt_sheet, last)])
            ELSE before

\* only the columns the sheet populates can hold a header
FgParts(lt_sheet) ==
    FgPartsUpTo(lt_sheet, Min({LtHeaderColLimit - 1, max_column(lt_sheet)}))

\* fg_sections: the rows of column A holding exactly 'FG part number'
FgSections(cbom_sheet) ==
    {r \in 1..Min({FgSectionScanLimit - 1, max_row(cbom_sheet)}) :
        CellAt(cbom_sheet, r, FgKeyCol).value = Str(<<"FG part number">>)}

IsBlank(v) == IsNone(v) \/ strip(StrOf(v)) = <<>>

\* the rows a section's scan visits: below the header, up to the first blank
\* cell of column A (every row below max_row is blank)
SectionRows(cbom_sheet, section_row) ==
    {r \in (section_row + 1)..Min({section_row + FgSectionRowLimit - 1,
                                   max_row(cbom_sheet)}) :
        \A q \in (section_row + 1)..r :
            ~IsBlank(CellAt(cbom_sheet, q, FgKeyCol).value)}

\* unique_parts of one FG part
UniqueParts(cbom_sheet, fg_part) ==
    {strip(StrOf(CellAt(cbom_sheet, r, FgPartNumberCol).value)) :
        r \in {q \in UNION {SectionRows(cbom_sheet, sec) : sec \in FgSections(cbom_sheet)} :
                /\ strip(StrOf(CellAt(cbom_sheet, q, FgKeyCol).value)) = fg_part
                /\ Truthy(CellAt(cbom_sheet, q, FgPartNumberCol).value)}}

\* expected_count == actual_count, the left side being a cell value
CountEquals(v, n) == IsNumber(v) /\ v.n = n

Rule19Record(fg, cbom_sheet, last_cbom_name) ==
    LET actual_count == Cardinality(UniqueParts(cbom_sheet, fg.fg_part))
        expected == <<"Count ">> \o StrOf(fg.count) \o <<" for FG ">> \o fg.fg_part
        location == <<"Lead Time vs ">> \o last_cbom_name
    IN IF CountEquals(fg.count, actual_count)
       THEN ValidationResult(Rule19Name, LeadTimeFGWise, "PASS", expected,
                fg.fg_part \o <<": ">> \o StrOf(fg.count) \o <<" == ",
                    ToString(actual_count), " PASS">>, location)
       ELSE IF actual_count = 0
       THEN ValidationResult(Rule19Name, LeadTimeFGWise, "FAIL", expected,
                fg.fg_part \o <<": Not found in CBOM">>, location)
       ELSE ValidationResult(Rule19Name, LeadTimeFGWise, "FAIL", expected,
                fg.fg_part \o <<": ">> \o StrOf(fg.count) \o <<" != ",
                    ToString(actual_count), " FAIL">>, location)

validate_rule19_bom_matrix_validation(wb) ==
    IF ~HasSheet(wb, LeadTimeFGWise)
    THEN <<ValidationResult(Rule19Name, LeadTimeFGWise, "FAIL",
              <<"Sheet 'Lead Time (FG Wise)' should exist">>,
              <<"Sheet not found">>, NoLocation)>>
    ELSE LET fg_parts == FgParts(SheetNamed(wb, LeadTimeFGWise)) IN
         IF Len(fg_parts) = 0
         THEN <<ValidationResult(Rule19Name, LeadTimeFGWise, "FAIL",
                   <<"At least one 'LT in weeks - #' header with Grand Total">>,
                   <<"No FG parts with Grand Total found">>, NoLocation)>>
         ELSE IF CbomSheets(wb) = {}
         THEN <<ValidationResult(Rule19Name, NotApplicable, "FAIL",
                   <<"At least one '7.0 CBOM VL-{X}' sheet should exist">>,
                   <<"No CBOM VL sheets found">>, NoLocation)>>
         ELSE LET last_cbom_name == LastCbomName(wb)
                  cbom_sheet == SheetNamed(wb, last_cbom_name)
              IN IF FgSections(cbom_sheet) = {}
                 THEN <<ValidationResult(Rule19Name, last_cbom_name, "FAIL",
                           <<"'FG part number' headers in Column A">>,
                           <<"No 'FG part number' headers found">>, NoLocation)>>
                 ELSE [i \in 1..Len(fg_parts) |->
                         Rule19Record(fg_parts[i], cbom_sheet, last_cbom_name)]

-----------------------------------------------------------------------------
(* Helpers of the scanning rules                                           *)

ColumnLetters ==
    <<"A", "B", "C", "D", "E", "F", "G", "H", "I", "J", "K", "L", "M", "N", "O",
      "P", "Q", "R", "S", "T", "U", "V", "W", "X", "Y", "Z">>

\* openpyxl.utils.get_column_letter, for the columns the rules scan
get_column_letter(c) ==
    IF c <= 26 THEN <<ColumnLetters[c]>>
    ELSE <<ColumnLetters[(c - 1) \div 26], ColumnLetters[((c - 1) % 26) + 1]>>

\* the cells of rows 1..rows and columns 1..cols whose value is a non-empty
\* text (cell.value and isinstance(cell.value, str))
TextPlaces(sheet, rows, cols) ==
    {rc \in DOMAIN sheet : /\ rc[1] <= rows /\ rc[2] <= cols
                           /\ IsStr(sheet[rc].value) /\ Truthy(sheet[rc].value)}

\* a set of integers as an ascending sequence
RECURSIVE Ascending(_)
Ascending(S) ==
    IF S = {} THEN <<>> ELSE <<Min(S)>> \o Ascending(S \ {Min(S)})

\* the concatenation of a sequence of sequences
RECURSIVE Flatten(_)
Flatten(seqs) == IF Len(seqs) = 0 THEN <<>> ELSE seqs[1] \o Flatten(Tail(seqs))

\* row by row, and left to right within a row
PlaceBefore(a, b) == a[1] < b[1] \/ (a[1] = b[1] /\ a[2] < b[2])

RECURSIVE InReadingOrder(_)
InReadingOrder(places) ==
    IF places = {} THEN <<>>
    ELSE LET first == CHOOSE a \in places : \A b \in places \ {a} : PlaceBefore(a, b)
         IN <<first>> \o InReadingOrder(places \ {first})

\* some cell of rows row+1 .. row+limit-1 of the column holds a truthy value
\* whose text is not blank
HasValueBelow(sheet, row, col, limit) ==
    \E r \in (row + 1)..Min({row + limit - 1, max_row(sheet)}) :
        LET v == CellAt(sheet, r, col).value IN
        Truthy(v) /\ strip(StrOf(v)) # <<>>

\* has_currency: some cell of the `below` - 1 rows under the header, or of
\* the `above` rows over it, passes the currency heuristic
HasCurrencyNear(sheet, row, col, below, above) ==
    \/ \E r \in (row + 1)..Min({row + below - 1, max_row(sheet)}) :
            _has_currency_format_or_symbol(CellAt(sheet, r, col))
    \/ \E r \in Max({1, row - above})..(row - 1) :
            _has_currency_format_or_symbol(CellAt(sheet, r, col))

\* a column-A text that is a numbered header: "." in it, digits before it
HasNumberPrefix(value) ==
    FirstIndex(value, ".") # 0 /\ isdigit(strip(SplitHead(value, ".")))

\* s.split(sep)
RECURSIVE Split(_, _)
Split(s, sep) ==
    IF FirstIndex(s, sep) = 0 THEN <<s>>
    ELSE <<SplitHead(s, sep)>> \o Split(SplitRest(s, sep), sep)

MissingSheetResult(rule_name, sheet_name) ==
    ValidationResult(rule_name, sheet_name, "FAIL",
        <<"Sheet '">> \o sheet_name \o <<"' should exist">>, <<"Sheet not found">>,
        NoLocation)

-----------------------------------------------------------------------------
(* Rule 2: Quoted MPN; Rule 8: Quoted MFR; Rule 9: NRFND                   *)

Rule2Name == <<"Rule 2: Quoted MPN Validation">>
Rule2RowLimit == 500
NotesColLimit == 20
ValuesBelowLimit == 100

validate_rule2_corrected_mpn(wb) ==
    IF ~HasSheet(wb, MissingNotes) THEN <<MissingSheetResult(Rule2Name, MissingNotes)>>
    ELSE LET sheet == SheetNamed(wb, MissingNotes)
             texts == TextPlaces(sheet, Rule2RowLimit, NotesColLimit)
             quoted == {rc \in texts : sheet[rc].value.s = <<"Quoted MPN">>}
             quoted_mpn_found == quoted # {}
             quoted_mpn_has_values ==
                \E rc \in quoted : HasValueBelow(sheet, rc[1], rc[2], ValuesBelowLimit)
             corrected_mpn_subheader_found ==
                \E rc \in texts : sheet[rc].value.s = <<"Corrected MPN">>
         IN IF quoted_mpn_found /\ quoted_mpn_has_values /\ ~corrected_mpn_subheader_found
            THEN LET last == InReadingOrder(quoted)[Cardinality(quoted)] IN
                 <<ValidationResult(Rule2Name, MissingNotes, "PASS",
                    <<"'Quoted MPN' header with values">>, <<"Quoted MPN is present">>,
                    get_column_letter(last[2]) \o NumText(last[1]))>>
            ELSE IF corrected_mpn_subheader_found
            THEN <<ValidationResult(Rule2Name, MissingNotes, "FAIL",
                    <<"'Corrected MPN' sub-header should NOT be present">>,
                    <<"'Corrected MPN' sub-header found (should only have 'Quoted MPN')">>,
                    NoLocation)>>
            ELSE IF quoted_mpn_found
            THEN <<ValidationResult(Rule2Name, MissingNotes, "FAIL",
                    <<"'Quoted MPN' header with values">>,
                    <<"Quoted MPN found but no values present">>, NoLocation)>>
            ELSE <<ValidationResult(Rule2Name, MissingNotes, "FAIL",
                    <<"'Quoted MPN' header should be present under 'Corrected MPN Mentioned' section">>,
                    <<"Quoted MPN header not found">>, NoLocation)>>

Rule8Name == <<"Rule 8: Quoted MFR Validation">>
Rule8RowLimit == 50

validate_rule8_quoted_mfr(wb) ==
    IF ~HasSheet(wb, MissingNotes) THEN <<MissingSheetResult(Rule8Name, MissingNotes)>>
    ELSE LET sheet == SheetNamed(wb, MissingNotes)
             quoted == {rc \in TextPlaces(sheet, Rule8RowLimit, NotesColLimit) :
                            sheet[rc].value.s = <<"Quoted MFR">>}
         IN IF quoted = {}
            THEN <<ValidationResult(Rule8Name, MissingNotes, "FAIL",
                    <<"'Quoted MFR' header should be present">>,
                    <<"Quoted MFR header not found">>, NoLocation)>>
            ELSE IF \E rc \in quoted : HasValueBelow(sheet, rc[1], rc[2], ValuesBelowLimit)
            THEN LET last == InReadingOrder(quoted)[Cardinality(quoted)] IN
                 <<ValidationResult(Rule8Name, MissingNotes, "PASS",
                    <<"'Quoted MFR' header with values">>, <<"Quoted MFR is present">>,
                    get_column_letter(last[2]) \o NumText(last[1]))>>
            ELSE <<ValidationResult(Rule8Name, MissingNotes, "FAIL",
                    <<"'Quoted MFR' header with values">>,
                    <<"Quoted MFR found but no values present">>, NoLocation)>>

Rule9Name == <<"Rule 9: NRFND Validation">>
NrfndDataColLimit == 15

\* the column-A rows holding a '#. NRFND' header
NrfndRows(sheet) ==
    {r \in 1..max_row(sheet) :
        LET v == CellAt(sheet, r, 1).value IN
        /\ IsStr(v) /\ Truthy(v)
        /\ LET value == strip(v.s) IN
            /\ CharLen(value) > 2
            /\ \/ endswith(upper(value), <<"NRFND">>)
               \/ Contains(upper(value), <<".", " ", "NRFND">>)
               \/ Contains(upper(value), <<".", "NRFND">>)
            /\ HasNumberPrefix(value)}

validate_rule9_nrfnd_missing(wb) ==
    IF ~HasSheet(wb, MissingNotes) THEN <<MissingSheetResult(Rule9Name, MissingNotes)>>
    ELSE LET sheet == SheetNamed(wb, MissingNotes)
             rows == Ascending(NrfndRows(sheet))
             nrfnd_has_values ==
                \E i \in 1..Len(rows) :
                    \E r \in (rows[i] + 2)..Min({rows[i] + ValuesBelowLimit - 1,
                                                 max_row(sheet)}) :
                        \E c \in 1..(NrfndDataColLimit - 1) :
                            LET v == CellAt(sheet, r, c).value IN
                            Truthy(v) /\ strip(StrOf(v)) # <<>>
         IN IF Len(rows) = 0
            THEN <<ValidationResult(Rule9Name, MissingNotes, "FAIL",
                    <<"'#. NRFND' sections should be present (e.g., '1. NRFND', '2. NRFND')">>,
                    <<"NRFND sections not found">>, NoLocation)>>
            ELSE IF nrfnd_has_values
            THEN <<ValidationResult(Rule9Name, MissingNotes, "PASS",
                    <<"'#. NRFND' sections with values">>,
                    <<"NRFND present in missing notes (">> \o NumText(Len(rows))
                        \o <<" section(s): ">>
                        \o Join([i \in 1..Len(rows) |->
                                    strip(CellAt(sheet, rows[i], 1).value.s)], <<", ">>)
                        \o <<")">>,
                    <<"Row ">> \o NumText(rows[1]))>>
            ELSE <<ValidationResult(Rule9Name, MissingNotes, "FAIL",
                    <<"'#. NRFND' sections with values">>,
                    <<"NRFND sections found but no values present">>, NoLocation)>>

-----------------------------------------------------------------------------
(* Rule 7: currency in A CLASS PARTS; Rule 10: currency in BOM MATRIX      *)

Rule7Name == <<"Rule 7: Currency Validation (A CLASS PARTS)">>
Rule7RowLimit == 20
Rule7ColLimit == 50
CurrencyBelow == 10
CurrencyAbove == 5

validate_rule7_currency_a_class_parts(wb) ==
    IF ~HasSheet(wb, AClassParts) THEN <<MissingSheetResult(Rule7Name, AClassParts)>>
    ELSE LET sheet == SheetNamed(wb, AClassParts)
             texts == TextPlaces(sheet, Rule7RowLimit, Rule7ColLimit)
             cost_headers == {rc \in texts : startswith(sheet[rc].value.s, <<"Cost #">>)}
             ext_price_headers ==
                {rc \in texts \ cost_headers :
                    Contains(sheet[rc].value.s, <<"Ext Price (Splits) #">>)}
             ext_vol_cost_headers ==
                {rc \in texts \ (cost_headers \cup ext_price_headers) :
                    Contains(sheet[rc].value.s, <<"Ext Vol Cost (Splits) #">>)}
             all_headers == InReadingOrder(cost_headers)
                            \o InReadingOrder(ext_price_headers)
                            \o InReadingOrder(ext_vol_cost_headers)
             without == SelectSeq(all_headers,
                            LAMBDA rc : ~HasCurrencyNear(sheet, rc[1], rc[2],
                                            CurrencyBelow, CurrencyAbove))
         IN IF Len(without) = 0
            THEN <<ValidationResult(Rule7Name, AClassParts, "PASS",
                    <<"Currency symbols in all Cost, Ext Price, and Ext Vol Cost columns">>,
                    <<"Currency symbol present">>, NoLocation)>>
            ELSE <<ValidationResult(Rule7Name, AClassParts, "FAIL",
                    <<"Currency symbols in Cost #{X}, Ext Price (Splits) #{X}, and Ext Vol Cost (Splits) #{X}">>,
                    Join([i \in 1..Len(without) |->
                            <<"'">> \o sheet[without[i]].value.s \o <<"' missing currency">>],
                         <<"; ">>),
                    NoLocation)>>

Rule10Name == <<"Rule 10: Currency Validation (BOM MATRIX)">>
Rule10RowLimit == 30
Rule10ColLimit == 100
VlCurrencyBelow == 4
VlCurrencyAbove == 3
MissingCurrencyShown == 10

\* sort(key=column) of occurrences met row by row
RECURSIVE ByColumn(_)
ByColumn(places) ==
    IF places = {} THEN <<>>
    ELSE LET first == CHOOSE a \in places :
                        \A b \in places \ {a} : PlaceBefore(<<a[2], a[1]>>, <<b[2], b[1]>>)
         IN <<first>> \o ByColumn(places \ {first})

MissingCurrencyText(sheet, rc) ==
    strip(sheet[rc].value.s) \o <<" (Col ">> \o get_column_letter(rc[2]) \o <<")">>

validate_rule10_currency_bom_matrix(wb) ==
    IF ~HasSheet(wb, BomMatrix) THEN <<MissingSheetResult(Rule10Name, BomMatrix)>>
    ELSE LET sheet == SheetNamed(wb, BomMatrix)
             texts == TextPlaces(sheet, Rule10RowLimit, Rule10ColLimit)
             name(rc) == strip(sheet[rc].value.s)
             grand_total_occurrences ==
                ByColumn({rc \in texts : Contains(name(rc), <<"Grand Total">>)})
             unit_price_occurrences ==
                {rc \in texts : Contains(name(rc), <<"Unit Price">>)}
             last_unit_price_col ==
                IF unit_price_occurrences = {} THEN 0
                ELSE Max({rc[2] : rc \in unit_price_occurrences})
             static == {rc \in texts : \/ Contains(name(rc), <<"Unit Price">>)
                                       \/ Contains(name(rc), <<"Net Excess Cost">>)}
             vl_headers_found ==
                {rc \in texts \ static : startswith(name(rc), <<"VL-">>)}
             missing_currency ==
                SelectSeq(InReadingOrder(static),
                    LAMBDA rc : ~HasCurrencyNear(sheet, rc[1], rc[2],
                                    CurrencyBelow, CurrencyAbove))
                \o SelectSeq(InReadingOrder({rc \in vl_headers_found :
                                                rc[2] > last_unit_price_col}),
                    LAMBDA rc : ~HasCurrencyNear(sheet, rc[1], rc[2],
                                    VlCurrencyBelow, VlCurrencyAbove))
                \o (IF Len(grand_total_occurrences) >= 2
                       /\ ~HasCurrencyNear(sheet, grand_total_occurrences[2][1],
                                grand_total_occurrences[2][2], CurrencyBelow, CurrencyAbove)
                    THEN <<grand_total_occurrences[2]>> ELSE <<>>)
         IN IF Len(missing_currency) = 0
            THEN <<ValidationResult(Rule10Name, BomMatrix, "PASS",
                    <<"Currency symbols in Unit Price, Grand Total, Net Excess Cost, VL-X">>,
                    <<"Currency symbol present">>, NoLocation)>>
            ELSE <<ValidationResult(Rule10Name, BomMatrix, "FAIL",
                    <<"Currency symbols in all price columns">>,
                    <<"Missing currency: ">>
                        \o Join([i \in 1..Len(Take(missing_currency, MissingCurrencyShown)) |->
                                    MissingCurrencyText(sheet, missing_currency[i])],
                                <<", ">>),
                    NoLocation)>>

-----------------------------------------------------------------------------
(* Rules 1, 3, 4 on '7.0 CBOM VL-{X}' sheets; Rules 5, 6 on 'Ex Inv VL-{X}' *)

ExInvVLPrefix == "Ex Inv VL-"

\* re.match(r'^Ex Inv VL-(\d+)$', name)
MatchesExInvVL(name) ==
    Len(name) >= 2 /\ name[1] = ExInvVLPrefix /\ isdigit(Tail(name))

\* matching_sheets: the matching names in workbook order
CbomMatchingSheets(wb) == SelectSeq(wb.sheetnames, MatchesCbomVL)
ExInvMatchingSheets(wb) == SelectSeq(wb.sheetnames, MatchesExInvVL)

\* match.group(1)
sheet_number(name) == Tail(name)

NoMatchingSheets(rule_name, family) ==
    ValidationResult(rule_name, NotApplicable, "FAIL",
        <<"Sheets matching pattern '">> \o family \o <<"'">>,
        <<"No matching sheets found">>, NoLocation)

\* the cells of the window with cell.value == header
ExactPlaces(sheet, rows, cols, header) ==
    {rc \in DOMAIN sheet : /\ rc[1] <= rows /\ rc[2] <= cols
                           /\ IsStr(sheet[rc].value) /\ sheet[rc].value.s = header}

\* the cells of the window with a text whose strip() is the header
StrippedPlaces(sheet, rows, cols, header) ==
    {rc \in TextPlaces(sheet, rows, cols) : strip(sheet[rc].value.s) = header}

\* the place a row-by-row, left-to-right scan meets last
LastPlace(places) == InReadingOrder(places)[Cardinality(places)]

\* the place a row-by-row, left-to-right scan meets first
FirstPlace(places) == InReadingOrder(places)[1]

PlaceText(rc) == get_column_letter(rc[2]) \o NumText(rc[1])

Rule1Name == <<"Rule 1: Header Validation">>
Rule1RowLimit == 100
Rule1ColLimit == 100

\* f"Ext Part Vol Price (Splits) #{sheet_number} (Conv.)"
Rule1Header(number) ==
    <<"Ext Part Vol Price", " ", "(", "Splits", ")", " ", "#">> \o number
        \o <<" ", "(Conv.)">>

Rule1Record(wb, name) ==
    LET sheet == SheetNamed(wb, name)
        expected_header == Rule1Header(sheet_number(name))
        found == ExactPlaces(sheet, Rule1RowLimit, Rule1ColLimit, expected_header)
        similar == {rc \in TextPlaces(sheet, Rule1RowLimit, Rule1ColLimit) :
                        /\ Contains(sheet[rc].value.s, <<"Ext Part Vol Price">>)
                        /\ Contains(sheet[rc].value.s, <<"Splits">>)}
    IN IF found # {}
       THEN ValidationResult(Rule1Name, name, "PASS", expected_header,
                sheet[FirstPlace(found)].value.s, PlaceText(FirstPlace(found)))
       ELSE IF similar # {}
       THEN ValidationResult(Rule1Name, name, "FAIL", expected_header,
                <<"Found: '">> \o sheet[FirstPlace(similar)].value.s \o <<"'">>,
                PlaceText(FirstPlace(similar)))
       ELSE ValidationResult(Rule1Name, name, "FAIL", expected_header,
                <<"Header not found">>, NotApplicable)

validate_rule1_header_presence(wb) ==
    LET matching_sheets == CbomMatchingSheets(wb) IN
    IF Len(matching_sheets) = 0
    THEN <<NoMatchingSheets(Rule1Name, <<"7.0 CBOM VL-{X}">>)>>
    ELSE [i \in 1..Len(matching_sheets) |-> Rule1Record(wb, matching_sheets[i])]

Rule3Name == <<"Rule 3: Currency Symbol Validation (CBOM)">>
Rule3RowLimit == 15
Rule3ColLimit == 50

\* f"Ext Price #{n} (Conv.)", f"Ext Part Vol Price #{n} (Conv.)"
Rule3Headers(number) ==
    <<<<"Ext Price", " ", "#">> \o number \o <<" ", "(Conv.)">>,
      <<"Ext Part Vol Price", " ", "#">> \o number \o <<" ", "(Conv.)">>>>

\* best_row, best_col: the leftmost occurrence of the lowest row
BestPlace(places) == FirstPlace(places)

Rule3Record(wb, name) ==
    LET sheet == SheetNamed(wb, name)
        headers_to_check == Rule3Headers(sheet_number(name))
        places(h) == ExactPlaces(sheet, Rule3RowLimit, Rule3ColLimit, h)
        missing_headers == SelectSeq(headers_to_check, LAMBDA h : places(h) = {})
        invalid_formats ==
            SelectSeq(headers_to_check,
                LAMBDA h : /\ places(h) # {}
                           /\ ~HasCurrencyNear(sheet, BestPlace(places(h))[1],
                                    BestPlace(places(h))[2], CurrencyBelow, CurrencyAbove))
    IN IF Len(missing_headers) > 0
       THEN ValidationResult(Rule3Name, name, "FAIL",
                <<"Headers for sheet number #">> \o sheet_number(name)
                    \o <<" with currency-formatted values">>,
                <<"Missing headers: ">> \o Join(missing_headers, <<", ">>), NoLocation)
       ELSE IF Len(invalid_formats) > 0
       THEN ValidationResult(Rule3Name, name, "FAIL",
                <<"Values with currency symbols ($, €, £, etc.)">>,
                <<"No currency format in: ">> \o Join(invalid_formats, <<", ">>),
                NoLocation)
       ELSE ValidationResult(Rule3Name, name, "PASS",
                <<"Currency symbols in Ext Price #">> \o sheet_number(name)
                    \o <<" and Ext Part Vol Price #">> \o sheet_number(name),
                <<"Currency symbol present">>, NoLocation)

validate_rule3_currency_symbols_cbom(wb) ==
    LET matching_sheets == CbomMatchingSheets(wb) IN
    IF Len(matching_sheets) = 0
    THEN <<NoMatchingSheets(Rule3Name, <<"7.0 CBOM VL-{X}">>)>>
    ELSE [i \in 1..Len(matching_sheets) |-> Rule3Record(wb, matching_sheets[i])]

Rule4Name == <<"Rule 4: MOQ Cost % Validation">>
Rule4RowLimit == 50
Rule4ColLimit == 50

\* has_percentage_above for the cell over the header
IsPercentage(above_cell) ==
    /\ ~IsNone(above_cell.value)
    /\ \/ Contains(above_cell.number_format, <<"%">>)
       \/ IsStr(above_cell.value) /\ Contains(above_cell.value.s, <<"%">>)
       \/ IsNumber(above_cell.value)

Rule4Record(wb, name) ==
    LET sheet == SheetNamed(wb, name)
        found == StrippedPlaces(sheet, Rule4RowLimit, Rule4ColLimit, <<"MOQ Cost">>)
    IN IF found = {}
       THEN ValidationResult(Rule4Name, name, "FAIL",
                <<"'MOQ Cost' header should be present">>,
                <<"'MOQ Cost' header not found">>, NoLocation)
       ELSE LET rc == FirstPlace(found)
                has_percentage_above ==
                    rc[1] > 1 /\ IsPercentage(CellAt(sheet, rc[1] - 1, rc[2]))
            IN IF ~has_percentage_above
               THEN ValidationResult(Rule4Name, name, "FAIL",
                        <<"Percentage value above 'MOQ Cost'">>,
                        <<"No percentage found above MOQ Cost at ">> \o PlaceText(rc),
                        NoLocation)
               ELSE ValidationResult(Rule4Name, name, "PASS",
                        <<"MOQ Cost with percentage above">>, <<"MOQ Cost present">>,
                        PlaceText(rc))

validate_rule4_moq_cost(wb) ==
    LET matching_sheets == CbomMatchingSheets(wb) IN
    IF Len(matching_sheets) = 0
    THEN <<NoMatchingSheets(Rule4Name, <<"7.0 CBOM VL-{X}">>)>>
    ELSE [i \in 1..Len(matching_sheets) |-> Rule4Record(wb, matching_sheets[i])]

Rule5Name == <<"Rule 5: Currency Symbol Validation (Ex Inv)">>
Rule5RowLimit == 50
Rule5ColLimit == 50
\* the number of details a record with a header not found may hold and pass
MinorVariations == 2

\* headers_to_check of an 'Ex Inv VL-{n}' sheet
Rule5Headers(number) ==
    <<<<"Excess Cost", " ", "#">> \o number,
      <<"Cost", " ", "#">> \o number,
      <<"Ext Vol Cost", " ", "(", "Splits", ")", " ", "#">> \o number,
      <<"Excess Cost", " ", "#">> \o number \o <<" ", "-B">> \o number,
      <<"Buy value after", " ", "-B">> \o number,
      <<"Net Excess Cost", " ", "#">> \o number>>

\* the detail one header adds to validation_details: none, or one text
Rule5Detail(sheet, expected_header) ==
    LET found == {rc \in TextPlaces(sheet, Rule5RowLimit, Rule5ColLimit) :
                    sheet[rc].value.s = expected_header}
    IN IF found = {}
       THEN <<<<"'">> \o expected_header \o <<"' not found">>>>
       ELSE IF ~HasCurrencyNear(sheet, FirstPlace(found)[1], FirstPlace(found)[2],
                                CurrencyBelow, CurrencyAbove)
       THEN <<<<"'">> \o expected_header \o <<"' missing currency">>>>
       ELSE <<>>

Rule5Record(wb, name) ==
    LET sheet == SheetNamed(wb, name)
        headers_to_check == Rule5Headers(sheet_number(name))
        validation_details ==
            Flatten([i \in 1..Len(headers_to_check) |->
                        Rule5Detail(sheet, headers_to_check[i])])
        some_not_found ==
            \E i \in 1..Len(validation_details) :
                Contains(validation_details[i], <<"' not found">>)
    IN IF Len(validation_details) > 0 /\ some_not_found
       THEN ValidationResult(Rule5Name, name,
                IF Len(validation_details) <= MinorVariations THEN "PASS" ELSE "FAIL",
                <<"Currency symbols in price columns for sheet #">> \o sheet_number(name),
                Join(validation_details, <<"; ">>), NoLocation)
       ELSE IF Len(validation_details) > 0
       THEN ValidationResult(Rule5Name, name, "FAIL",
                <<"Currency symbols in all price columns for #">> \o sheet_number(name),
                Join(validation_details, <<"; ">>), NoLocation)
       ELSE ValidationResult(Rule5Name, name, "PASS",
                <<"Currency symbols present in price columns for #">>
                    \o sheet_number(name),
                <<"Currency symbol present">>, NoLocation)

validate_rule5_currency_symbols_ex_inv(wb) ==
    LET matching_sheets == ExInvMatchingSheets(wb) IN
    IF Len(matching_sheets) = 0
    THEN <<NoMatchingSheets(Rule5Name, <<"Ex Inv VL-{X}">>)>>
    ELSE [i \in 1..Len(matching_sheets) |-> Rule5Record(wb, matching_sheets[i])]

Rule6Name == <<"Rule 6: Net Ordering qty Header Validation">>
Rule6RowLimit == 50
Rule6ColLimit == 50

Rule6Record(wb, name) ==
    LET sheet == SheetNamed(wb, name)
        found == ExactPlaces(sheet, Rule6RowLimit, Rule6ColLimit, <<"Net Ordering qty">>)
    IN IF found # {}
       THEN ValidationResult(Rule6Name, name, "PASS",
                <<"'Net Ordering qty' header present">>, <<"Header is inline">>,
                PlaceText(FirstPlace(found)))
       ELSE ValidationResult(Rule6Name, name, "FAIL",
                <<"'Net Ordering qty' header should be present">>,
                <<"Header not found">>, NoLocation)

validate_rule6_net_ordering_qty(wb) ==
    LET matching_sheets == ExInvMatchingSheets(wb) IN
    IF Len(matching_sheets) = 0
    THEN <<NoMatchingSheets(Rule6Name, <<"Ex Inv VL-{X}">>)>>
    ELSE [i \in 1..Len(matching_sheets) |-> Rule6Record(wb, matching_sheets[i])]

-----------------------------------------------------------------------------
(* Rules 11 to 15: the proto headers of BOM MATRIX and their counterparts  *)

ProtoRowLimit == 30
ProtoColLimit == 100

\* proto_qty_found and proto_price_found
_check_proto_headers_in_bom_matrix(wb) ==
    IF ~HasSheet(wb, BomMatrix) THEN <<FALSE, FALSE>>
    ELSE LET sheet == SheetNamed(wb, BomMatrix)
             texts == TextPlaces(sheet, ProtoRowLimit, ProtoColLimit)
         IN <<\E rc \in texts : Contains(sheet[rc].value.s, <<"Proto Qty">>),
              \E rc \in texts : Contains(sheet[rc].value.s, <<"Proto Price">>)>>

\* the first of the two flags alone
proto_qty_found(wb) == _check_proto_headers_in_bom_matrix(wb)[1]

proto_headers_exist(wb) ==
    _check_proto_headers_in_bom_matrix(wb)[1] /\ _check_proto_headers_in_bom_matrix(wb)[2]

Rule11Name == <<"Rule 11: CBOM Proto Sheet Validation">>

validate_rule11_cbom_proto_sheet(wb) ==
    LET cbom_proto_exists == HasSheet(wb, CbomProto) IN
    IF proto_headers_exist(wb) /\ cbom_proto_exists
    THEN <<ValidationResult(Rule11Name, CbomProto, "PASS",
            <<"'7.0 CBOM Proto' sheet should exist when Proto headers present">>,
            <<"Proto present">>, NoLocation)>>
    ELSE IF proto_headers_exist(wb)
    THEN <<ValidationResult(Rule11Name, NotApplicable, "FAIL",
            <<"'7.0 CBOM Proto' sheet should exist">>,
            <<"Proto quantity present in BOM MATRIX but 7.0 CBOM Proto sheet missing">>,
            NoLocation)>>
    ELSE IF cbom_proto_exists
    THEN <<ValidationResult(Rule11Name, CbomProto, "FAIL",
            <<"'7.0 CBOM Proto' sheet should not exist without Proto headers">>,
            <<"Proto quantity does not present but 7.0 CBOM Proto present">>,
            NoLocation)>>
    ELSE <<ValidationResult(Rule11Name, NotApplicable, "PASS",
            <<"No Proto headers, no Proto sheet">>,
            <<"Proto not specified, sheet correctly absent">>, NoLocation)>>

Rule12Name == <<"Rule 12: Proto Volume in Summary">>
Rule12RowLimit == 30
Rule12ColLimit == 50

validate_rule12_proto_volume_summary(wb) ==
    IF ~HasSheet(wb, Summary)
    THEN <<ValidationResult(Rule12Name, Summary, "FAIL",
            <<"Sheet 'Summary' should exist">>, <<"Summary sheet not found">>,
            NoLocation)>>
    ELSE LET sheet == SheetNamed(wb, Summary)
             found == {rc \in TextPlaces(sheet, Rule12RowLimit, Rule12ColLimit) :
                        Contains(sheet[rc].value.s, <<"Proto Volume">>)}
         IN IF proto_headers_exist(wb) /\ found # {}
            THEN LET first == InReadingOrder(found)[1] IN
                 <<ValidationResult(Rule12Name, Summary, "PASS",
                    <<"'Proto Volume' header should be present">>,
                    <<"Proto volume present in summary">>,
                    get_column_letter(first[2]) \o NumText(first[1]))>>
            ELSE IF proto_headers_exist(wb)
            THEN <<ValidationResult(Rule12Name, Summary, "FAIL",
                    <<"'Proto Volume' header should be present when Proto specified">>,
                    <<"Proto volume does not present in summary">>, NoLocation)>>
            ELSE IF found # {}
            THEN <<ValidationResult(Rule12Name, Summary, "FAIL",
                    <<"'Proto Volume' should not be present without Proto specification">>,
                    <<"Proto volume present but Proto not specified in BOM MATRIX">>,
                    NoLocation)>>
            ELSE <<ValidationResult(Rule12Name, Summary, "PASS",
                    <<"No Proto Volume when Proto not specified">>,
                    <<"Proto not specified, Proto Volume correctly absent">>,
                    NoLocation)>>

Rule13Name == <<"Rule 13: Proto Pricing in Missing Notes">>

\* the column-A rows holding a '#. Proto Pricing No Cost' header
ProtoPricingRows(sheet) ==
    {r \in 1..max_row(sheet) :
        LET v == CellAt(sheet, r, 1).value IN
        /\ IsStr(v) /\ Truthy(v)
        /\ LET value == strip(v.s) IN
            /\ \/ Contains(value, <<"Proto Pricing No Cost">>)
               \/ Contains(upper(value), <<"PROTO PRICING NO COST">>)
            /\ HasNumberPrefix(value)}

validate_rule13_proto_pricing_missing_notes(wb) ==
    IF ~HasSheet(wb, MissingNotes)
    THEN <<ValidationResult(Rule13Name, MissingNotes, "FAIL",
            <<"Sheet 'Missing Notes' should exist">>, <<"Missing Notes sheet not found">>,
            NoLocation)>>
    ELSE LET sheet == SheetNamed(wb, MissingNotes)
             rows == Ascending(ProtoPricingRows(sheet))
         IN IF proto_headers_exist(wb) /\ Len(rows) > 0
            THEN <<ValidationResult(Rule13Name, MissingNotes, "PASS",
                    <<"'#. Proto Pricing No Cost' sections should be present">>,
                    <<"Proto volume present and Proto Pricing No Cost is there in missing notes (">>
                        \o NumText(Len(rows)) \o <<" section(s): ">>
                        \o Join([i \in 1..Len(rows) |->
                                    strip(CellAt(sheet, rows[i], 1).value.s)], <<", ">>)
                        \o <<")">>,
                    NoLocation)>>
            ELSE IF proto_headers_exist(wb)
            THEN <<ValidationResult(Rule13Name, MissingNotes, "FAIL",
                    <<"'#. Proto Pricing No Cost' sections should be present (e.g., '1. Proto Pricing No Cost')">>,
                    <<"Proto specified but Proto Pricing No Cost sections not found in missing notes">>,
                    NoLocation)>>
            ELSE IF Len(rows) > 0
            THEN <<ValidationResult(Rule13Name, MissingNotes, "FAIL",
                    <<"'#. Proto Pricing No Cost' should not be present without Proto">>,
                    <<"Proto Pricing No Cost present but Proto not specified">>,
                    NoLocation)>>
            ELSE <<ValidationResult(Rule13Name, MissingNotes, "PASS",
                    <<"No Proto Pricing when Proto not specified">>,
                    <<"Proto not specified, Proto Pricing correctly absent">>,
                    NoLocation)>>

Rule14Name == <<"Rule 14: Ex Inv VL-proto Sheet Validation">>

validate_rule14_ex_inv_proto_sheet(wb) ==
    LET ex_inv_proto_exists == HasSheet(wb, ExInvProto) IN
    IF proto_headers_exist(wb) /\ ex_inv_proto_exists
    THEN <<ValidationResult(Rule14Name, ExInvProto, "PASS",
            <<"'Ex Inv VL-proto' sheet should exist when Proto specified">>,
            <<"Proto volume present and Ex Inv VL-proto sheet present">>, NoLocation)>>
    ELSE IF proto_headers_exist(wb)
    THEN <<ValidationResult(Rule14Name, NotApplicable, "FAIL",
            <<"'Ex Inv VL-proto' sheet should exist when Proto specified">>,
            <<"Proto specified but Ex Inv VL-proto sheet missing">>, NoLocation)>>
    ELSE IF ex_inv_proto_exists
    THEN <<ValidationResult(Rule14Name, ExInvProto, "FAIL",
            <<"'Ex Inv VL-proto' should not exist without Proto">>,
            <<"Ex Inv VL-proto present but Proto not specified">>, NoLocation)>>
    ELSE <<ValidationResult(Rule14Name, NotApplicable, "PASS",
            <<"No Ex Inv Proto sheet when Proto not specified">>,
            <<"Proto not specified, Ex Inv VL-proto correctly absent">>, NoLocation)>>

Rule15Name == <<"Rule 15: Proto Columns in BOM MATRIX">>

validate_rule15_proto_columns_bom_matrix(wb) ==
    LET cbom_proto_exists == HasSheet(wb, CbomProto) IN
    IF cbom_proto_exists /\ proto_headers_exist(wb)
    THEN <<ValidationResult(Rule15Name, BomMatrix, "PASS",
            <<"'Proto Qty' and 'Proto Price' headers should be present">>,
            <<"Proto volume is given and Proto Qty and Proto Price header is present in BOM MATRIX">>,
            NoLocation)>>
    ELSE IF cbom_proto_exists
    THEN <<ValidationResult(Rule15Name, BomMatrix, "FAIL",
            <<"'Proto Qty' and 'Proto Price' should be present when 7.0 CBOM Proto exists">>,
            <<"7.0 CBOM Proto sheet exists but Proto columns missing in BOM MATRIX">>,
            NoLocation)>>
    ELSE IF proto_headers_exist(wb)
    THEN <<ValidationResult(Rule15Name, BomMatrix, "FAIL",
            <<"Proto columns should not exist without 7.0 CBOM Proto sheet">>,
            <<"Proto Qty/Proto Price present but 7.0 CBOM Proto sheet missing">>,
            NoLocation)>>
    ELSE <<ValidationResult(Rule15Name, BomMatrix, "PASS",
            <<"No Proto columns when Proto sheet absent">>,
            <<"Proto sheet absent, Proto columns correctly absent">>, NoLocation)>>

-----------------------------------------------------------------------------
(* Rule 17: price validity in date format                                  *)

Rule17Name == <<"Rule 17: Price Validity Date Format">>
Rule17RowLimit == 30
Rule17ColLimit == 100
Rule17BelowLimit == 100

\* the tokens of a number format that hold one of the letters d, m, y in
\* either case; 'General', digits, '#', ',', '.', '@' and the currency
\* symbols hold none
DateFormatTokens ==
    {"d", "dd", "m", "mm", "mmm", "y", "yy", "yyyy", "D", "DD", "M", "MM", "YY",
     "YYYY", "date", "[Red]", "Standard"}

HasDateIndicator(number_format) ==
    \E i \in 1..Len(number_format) : number_format[i] \in DateFormatTokens

\* a text with '/' or '-' of whose parts two at least are digit strings
IsDateLikeText(value_str) ==
    /\ Contains(value_str, <<"/">>) \/ Contains(value_str, <<"-">>)
    /\ LET parts == Split([i \in 1..Len(value_str) |->
                            IF value_str[i] = "/" THEN "-" ELSE value_str[i]], "-")
       IN Len(SelectSeq(parts, LAMBDA part : isdigit(strip(part)))) >= 2

\* the number format alone, whatever the cell holds
FormatShowsDate(c) == HasDateIndicator(c.number_format)

HasDateFormat(c) ==
    /\ Truthy(c.value)
    /\ \/ HasDateIndicator(c.number_format)
       \/ c.value.t = "date"
       \/ IsStr(c.value) /\ IsDateLikeText(strip(c.value.s))

validate_rule17_price_validity_date_format(wb) ==
    IF ~HasSheet(wb, BomMatrix) THEN <<MissingSheetResult(Rule17Name, BomMatrix)>>
    ELSE LET sheet == SheetNamed(wb, BomMatrix)
             found == {rc \in TextPlaces(sheet, Rule17RowLimit - 1, Rule17ColLimit - 1) :
                        Contains(sheet[rc].value.s, <<"Effective Date">>)}
         IN IF found = {}
            THEN <<ValidationResult(Rule17Name, BomMatrix, "FAIL",
                    <<"'Effective Date' header should be present">>,
                    <<"'Effective Date' header not found in BOM MATRIX">>, NoLocation)>>
            ELSE LET first == InReadingOrder(found)[1]
                     has_date_format ==
                        \E r \in (first[1] + 1)..Min({first[1] + Rule17BelowLimit - 1,
                                                     max_row(sheet)}) :
                            HasDateFormat(CellAt(sheet, r, first[2]))
                     location == get_column_letter(first[2]) \o NumText(first[1])
                 IN IF has_date_format
                    THEN <<ValidationResult(Rule17Name, BomMatrix, "PASS",
                            <<"Price validity in date format">>,
                            <<"Price Validity in date format">>, location)>>
                    ELSE <<ValidationResult(Rule17Name, BomMatrix, "FAIL",
                            <<"At least one cell below 'Effective Date' should have date format">>,
                            <<"No date format found in Effective Date column">>,
                            location)>>

-----------------------------------------------------------------------------
(* run_all_validations: the nineteen rules in call order                   *)

run_all_validations(wb) ==
    validate_rule1_header_presence(wb)
    \o validate_rule2_corrected_mpn(wb)
    \o validate_rule3_currency_symbols_cbom(wb)
    \o validate_rule4_moq_cost(wb)
    \o validate_rule5_currency_symbols_ex_inv(wb)
    \o validate_rule6_net_ordering_qty(wb)
    \o validate_rule7_currency_a_class_parts(wb)
    \o validate_rule8_quoted_mfr(wb)
    \o validate_rule9_nrfnd_missing(wb)
    \o validate_rule10_currency_bom_matrix(wb)
    \o validate_rule11_cbom_proto_sheet(wb)
    \o validate_rule12_proto_volume_summary(wb)
    \o validate_rule13_proto_pricing_missing_notes(wb)
    \o validate_rule14_ex_inv_proto_sheet(wb)
    \o validate_rule15_proto_columns_bom_matrix(wb)
    \o validate_rule16_serial_number_standardization(wb)
    \o validate_rule17_price_validity_date_format(wb)
    \o validate_rule18_uncosted_parts_count(wb)
    \o validate_rule19_bom_matrix_validation(wb)

-----------------------------------------------------------------------------
(* Quote Win: the template configuration and the validator's state         *)

summary_header_row == 12
header_row == 17
data_start_row == 18
project_row == 3
project_value_col == 4

\* a pattern ^{pre}\d+{suf}$
Pattern(pre, suf) == [pre |-> pre, suf |-> suf]

required_summary_static_headers == << <<"Group By Field">> >>

required_summary_dynamic_patterns ==
    <<Pattern(<<"Ext Vol (Splits) #">>, <<>>),
      Pattern(<<"% Ext Vol Qty #">>, <<>>),
      Pattern(<<"Ext Part Vol Cost (Splits) #">>, <<" ", "(Conv.)">>),
      Pattern(<<"% Ext Vol Cost (Splits) #">>, <<>>)>>

required_static_headers ==
    << <<"Project">>, <<"Part Number">>, <<"Part Description">>, <<"Commodity">>,
       <<"Mfg Name">>, <<"Mfg Part Number">>, <<"Currency (Original)">>,
       <<"Supp Name">>, <<"Pkg Qty">>, <<"MOQ">>, <<"Lead Time">>, <<"Part Qty">>,
       <<"Corrected MPN">>, <<"Long Comment">>, <<"Price Type">>,
       <<"No Bid Reason">>, <<"Short Comment">>, <<"NCNR">>, <<"RFQ Number">>,
       <<"Eff Date">>, <<"Exp Date">>, <<"Quote Validity">>, <<"Part Status">> >>

AwardPattern == Pattern(<<"Award #">>, <<>>)

required_dynamic_patterns ==
    <<Pattern(<<"Cost #">>, <<" ", "(Conv.)">>),
      Pattern(<<"Price (Original) #">>, <<>>),
      Pattern(<<"Awarded Volume #">>, <<>>),
      AwardPattern,
      Pattern(<<"Source #">>, <<>>)>>

\* validation_results as the constructor leaves it
InitialValidationResults ==
    [header_validation |->
        [passed |-> TRUE, message |-> <<>>, missing_headers |-> <<>>,
         invalid_headers |-> <<>>],
     project_name_validation |-> [passed |-> TRUE, message |-> <<>>],
     filter_validation |-> [passed |-> TRUE, message |-> <<>>],
     award_validation |->
        [passed |-> TRUE, message |-> <<>>, issues |-> <<>>,
         award_column_results |-> <<>>]]

\* the active sheet: its title, its cells and its auto_filter.ref (<<>>: none)
InputSheet(title, cells, auto_filter) ==
    [title |-> title, cells |-> cells, auto_filter |-> auto_filter]

\* a validator after load_file
Validator(sheet) ==
    [input_sheet |-> sheet, validation_results |-> InitialValidationResults,
     comments |-> <<>>, fills |-> {}]

\* a write that leaves a cell's earlier comment in place
AnnotateKeepingFirst(v, places, text) ==
    [v EXCEPT !.comments = [rc \in DOMAIN v.comments \cup places |->
                                IF rc \in DOMAIN v.comments THEN v.comments[rc]
                                ELSE text],
              !.fills = @ \cup places]

\* cell.comment = Comment(text, ...); cell.fill = yellow_fill
Annotate(v, places, text) ==
    [v EXCEPT !.comments = [rc \in DOMAIN v.comments \cup places |->
                                IF rc \in places THEN text ELSE v.comments[rc]],
              !.fills = @ \cup places]

\* re.match(pattern, header)
re_match(pattern, header) ==
    LET digits == Len(header) - Len(pattern.pre) - Len(pattern.suf) IN
    /\ digits >= 1
    /\ SubSeq(header, 1, Len(pattern.pre)) = pattern.pre
    /\ isdigit(SubSeq(header, Len(pattern.pre) + 1, Len(pattern.pre) + digits))
    /\ SubSeq(header, Len(pattern.pre) + digits + 1, Len(header)) = pattern.suf

\* the pattern with ^ and $ dropped and \d+ shown as X
pattern_name(pattern) == pattern.pre \o <<"X">> \o pattern.suf

-----------------------------------------------------------------------------
(* Quote Win rule 1: validate_headers                                      *)

\* str(cell.value) of the row's truthy cells, as the cell holds it
RowHeadersAsHeld(cells, row) ==
    {StrOf(CellAt(cells, row, c).value) :
        c \in {k \in 1..max_column(cells) : Truthy(CellAt(cells, row, k).value)}}

\* str(cell.value).strip() of the row's truthy cells; only membership in
\* the list is ever used
RowHeaders(cells, row) ==
    {strip(StrOf(CellAt(cells, row, c).value)) :
        c \in {k \in 1..max_column(cells) : Truthy(CellAt(cells, row, k).value)}}

\* the headers found for patterns[k]: a header counts for the first
\* pattern it matches
DynamicHeadersFound(patterns, headers, k) ==
    {h \in headers : /\ re_match(patterns[k], h)
                     /\ \A j \in 1..(k - 1) : ~re_match(patterns[j], h)}

MissingStatic(required, headers) ==
    SelectSeq(required, LAMBDA h : h \notin headers)

MissingDynamicGroups(patterns, headers) ==
    LET missing == SelectSeq([k \in 1..Len(patterns) |-> k],
                        LAMBDA k : DynamicHeadersFound(patterns, headers, k) = {})
    IN [i \in 1..Len(missing) |-> pattern_name(patterns[missing[i]])]

BulletLines(items) ==
    Flatten([i \in 1..Len(items) |-> <<"  - ">> \o items[i] \o <<"\n">>])

HeaderCommentText(all_missing, missing_summary, missing_main) ==
    strip(<<"Headers are not matching.", "\n", "\n", "Missing Headers:", "\n">>
          \o BulletLines(all_missing)
          \o (IF Len(missing_summary) > 0
              THEN <<"\n", "SUMMARY ROW (Row ", ToString(summary_header_row), "):", "\n">>
                   \o BulletLines(missing_summary)
              ELSE <<>>)
          \o (IF Len(missing_main) > 0
              THEN <<"\n", "MAIN HEADER ROW (Row ", ToString(header_row), "):", "\n">>
                   \o BulletLines(missing_main)
              ELSE <<>>))

validate_headers(v) ==
    LET cells == v.input_sheet.cells
        summary_headers == RowHeaders(cells, summary_header_row)
        main_headers == RowHeaders(cells, header_row)
        missing_summary ==
            MissingStatic(required_summary_static_headers, summary_headers)
            \o MissingDynamicGroups(required_summary_dynamic_patterns, summary_headers)
        missing_main ==
            MissingStatic(required_static_headers, main_headers)
            \o MissingDynamicGroups(required_dynamic_patterns, main_headers)
        all_missing == missing_summary \o missing_main
    IN IF Len(all_missing) = 0 THEN v
       ELSE LET failed ==
                    [v EXCEPT !.validation_results.header_validation =
                        [passed |-> FALSE,
                         message |-> <<"Headers are not matching: ">>
                                        \o Join(all_missing, <<", ">>),
                         missing_headers |-> all_missing,
                         invalid_headers |-> <<>>]]
                commented ==
                    Annotate(failed, {<<summary_header_row, 1>>},
                             HeaderCommentText(all_missing, missing_summary, missing_main))
            IN [commented EXCEPT !.fills = @ \cup {<<header_row, 1>>}]

-----------------------------------------------------------------------------
(* Quote Win rule 2: validate_project_name                                 *)

\* a == b for two cell values
ValueEq(a, b) ==
    \/ IsNone(a) /\ IsNone(b)
    \/ IsNumber(a) /\ IsNumber(b) /\ a.n = b.n
    \/ IsStr(a) /\ IsStr(b) /\ a.s = b.s
    \/ a.t = "date" /\ b.t = "date" /\ a.s = b.s

\* the value of column A at the data start row itself
DataStartValue(cells) == CellAt(cells, data_start_row, 1).value

\* the first value of column A from the data start row down, or None
HeaderProjectValue(cells) ==
    LET rows == {r \in data_start_row..max_row(cells) :
                    ~IsNone(CellAt(cells, r, 1).value)}
    IN IF rows = {} THEN None ELSE CellAt(cells, Min(rows), 1).value

\* a project rule that marks the project cell whatever its verdict
CommentProjectCell(v) ==
    Annotate(v, {<<project_row, project_value_col>>}, <<"Project name checked.">>)

validate_project_name(v) ==
    LET cells == v.input_sheet.cells
        project_value == CellAt(cells, project_row, project_value_col).value
        header_project_value == HeaderProjectValue(cells)
    IN IF ValueEq(project_value, header_project_value) THEN v
       ELSE Annotate(
                [v EXCEPT !.validation_results.project_name_validation =
                    [passed |-> FALSE, message |-> <<"Project name not matching.">>]],
                {<<project_row, project_value_col>>},
                <<"Project name not matching.", "\n", "Expected: ">>
                    \o StrOf(header_project_value) \o <<"\n", "Got: ">>
                    \o StrOf(project_value))

-----------------------------------------------------------------------------
(* Quote Win rule 3: validate_filters                                      *)


\* the en dash (U+2013) of the filter message, as one symbol
EnDash == "--"

\* the <<row, column>> of a coordinate such as A1 (columns A..Z)
CoordinateOf(ref) ==
    <<int(Tail(ref)), CHOOSE c \in 1..Len(ColumnLetters) : ColumnLetters[c] = ref[1]>>

\* a filter rule that never looks at the sheet's auto-filter
FilterCheckSkipped(v) == v

validate_filters(v) ==
    LET filter_ref == v.input_sheet.auto_filter IN
    IF Len(filter_ref) = 0 THEN v
    ELSE LET message == <<"Filter applied at ">> \o filter_ref
                            \o <<" ", EnDash, " please remove the filter.">>
             filter_start_cell ==
                IF FirstIndex(filter_ref, ":") # 0 THEN SplitHead(filter_ref, ":")
                ELSE filter_ref
         IN Annotate(
                [v EXCEPT !.validation_results.filter_validation =
                    [passed |-> FALSE, message |-> message]],
                {CoordinateOf(filter_start_cell)}, message)

-----------------------------------------------------------------------------
(* Quote Win rule 4: validate_awards                                       *)

Hundred == <<"1", "0", "0">>

IsAwardHeader(c) ==
    Truthy(c.value) /\ re_match(AwardPattern, strip(StrOf(c.value)))

\* re.search(r'#(\d+)', str(cell.value)).group(1)
AwardNumOf(c) == Tail(strip(StrOf(c.value)))

AwardCols(cells) ==
    {c \in 1..max_column(cells) : IsAwardHeader(CellAt(cells, header_row, c))}

\* award_columns: keyed by the award number's text, a later column with the
\* same text replacing an earlier one
award_columns(cells) ==
    [num \in {AwardNumOf(CellAt(cells, header_row, c)) : c \in AwardCols(cells)} |->
        Max({c \in AwardCols(cells) : AwardNumOf(CellAt(cells, header_row, c)) = num})]

\* the column that put the key into award_columns
FirstAwardCol(cells, num) ==
    Min({c \in AwardCols(cells) : AwardNumOf(CellAt(cells, header_row, c)) = num})

\* sorted(award_columns.items(), key=int): stable, so equal integers keep
\* the order in which their keys were inserted
AwardNumBefore(cells, a, b) ==
    \/ int(a) < int(b)
    \/ int(a) = int(b) /\ FirstAwardCol(cells, a) < FirstAwardCol(cells, b)

RECURSIVE AwardNumsSorted(_, _)
AwardNumsSorted(cells, nums) ==
    IF nums = {} THEN <<>>
    ELSE LET first == CHOOSE a \in nums :
                        \A b \in nums \ {a} : AwardNumBefore(cells, a, b)
         IN <<first>> \o AwardNumsSorted(cells, nums \ {first})

QwPartNumberCols(cells) ==
    {c \in 1..max_column(cells) :
        LET value == CellAt(cells, header_row, c).value IN
        Truthy(value) /\ strip(StrOf(value)) = <<"Part Number">>}

\* part_number_rows[part]
PartRows(cells, part_number_col, part) ==
    {r \in data_start_row..max_row(cells) :
        LET part_number == CellAt(cells, r, part_number_col).value IN
        /\ ~IsNone(part_number)
        /\ strip(StrOf(part_number)) # <<>>
        /\ strip(StrOf(part_number)) = part}

\* the keys of part_number_rows, in the order of their first rows
PartNumbers(cells, part_number_col) ==
    LET rows == {r \in data_start_row..max_row(cells) :
                    LET part_number == CellAt(cells, r, part_number_col).value IN
                    ~IsNone(part_number) /\ strip(StrOf(part_number)) # <<>>}
        first_rows == {r \in rows :
                        \A q \in rows : q < r =>
                            strip(StrOf(CellAt(cells, q, part_number_col).value))
                                # strip(StrOf(CellAt(cells, r, part_number_col).value))}
        ordered == Ascending(first_rows)
    IN [i \in 1..Len(ordered) |->
            strip(StrOf(CellAt(cells, ordered[i], part_number_col).value))]

is_100(award_value) ==
    \/ IsNumber(award_value) /\ award_value.n = 100
    \/ IsStr(award_value) /\ strip(award_value.s) = Hundred

\* rows_with_award
RowsWithAward(cells, row_nums, col_num) ==
    {r \in row_nums : is_100(CellAt(cells, r, col_num).value)}

\* what one part number adds for one Award column: nothing, or the issue
\* message and the cells that get it as a comment
AwardIssue(cells, part_number_col, award_num, col_num, part_number) ==
    LET row_nums == PartRows(cells, part_number_col, part_number)
        rows_with_award == RowsWithAward(cells, row_nums, col_num)
    IN IF rows_with_award = {}
       THEN <<[message |-> <<"Award #">> \o award_num
                            \o <<" is not present for Part Number: ">> \o part_number,
               places |-> {<<Min(row_nums), part_number_col>>}]>>
       ELSE IF Cardinality(rows_with_award) > 1
       THEN <<[message |-> <<"Multiple Awards (100) found in Award #">> \o award_num
                            \o <<" for Part Number: ">> \o part_number
                            \o <<" at rows: ">>
                            \o Join([i \in 1..Cardinality(rows_with_award) |->
                                        NumText(Ascending(rows_with_award)[i])], <<", ">>),
               places |-> {<<r, col_num>> : r \in rows_with_award}]>>
       ELSE <<>>

\* no_award_parts of one Award column
NoAwardParts(cells, part_number_col, col_num) ==
    SelectSeq(PartNumbers(cells, part_number_col),
        LAMBDA part : RowsWithAward(cells,
                        PartRows(cells, part_number_col, part), col_num) = {})

\* multiple_award_parts of one Award column
MultipleAwardParts(cells, part_number_col, col_num) ==
    SelectSeq(PartNumbers(cells, part_number_col),
        LAMBDA part : Cardinality(RowsWithAward(cells,
                        PartRows(cells, part_number_col, part), col_num)) > 1)

\* the issues of all Award columns, in the order the loops meet them
AwardIssues(cells, part_number_col) ==
    LET columns == award_columns(cells)
        nums == AwardNumsSorted(cells, DOMAIN columns)
        parts == PartNumbers(cells, part_number_col)
    IN Flatten([k \in 1..Len(nums) |->
            Flatten([i \in 1..Len(parts) |->
                AwardIssue(cells, part_number_col, nums[k], columns[nums[k]],
                           parts[i])])])

RECURSIVE AnnotateIssues(_, _)
AnnotateIssues(v, issues) ==
    IF Len(issues) = 0 THEN v
    ELSE AnnotateIssues(Annotate(v, issues[1].places, issues[1].message), Tail(issues))

validate_awards(v) ==
    LET cells == v.input_sheet.cells IN
    IF AwardCols(cells) = {} THEN v
    ELSE IF QwPartNumberCols(cells) = {} THEN v
    ELSE LET part_number_col == Min(QwPartNumberCols(cells))
             columns == award_columns(cells)
             issues == AwardIssues(cells, part_number_col)
             total_issues == Len(issues)
             before == v.validation_results.award_validation
             after ==
                [passed |-> IF total_issues > 0 THEN FALSE ELSE before.passed,
                 message |-> IF total_issues > 0
                             THEN <<"Award validation failed - ", ToString(total_issues),
                                    " issues found">>
                             ELSE <<"Award validation passed">>,
                 issues |-> before.issues
                            \o [i \in 1..Len(issues) |-> issues[i].message],
                 award_column_results |->
                    [num \in DOMAIN columns |->
                        [no_award_parts |->
                            NoAwardParts(cells, part_number_col, columns[num]),
                         multiple_award_parts |->
                            MultipleAwardParts(cells, part_number_col, columns[num])]]]
         IN AnnotateIssues([v EXCEPT !.validation_results.award_validation = after],
                           issues)

-----------------------------------------------------------------------------
(* The route's Quote Win run                                               *)

QuoteWinResult(rule_name, sheet_name, status, expected, actual, location) ==
    [rule_name |-> rule_name, sheet_name |-> sheet_name, status |-> status,
     expected |-> expected, actual |-> actual, location |-> location,
     validator_type |-> "QUOTE_WIN"]

\* what the FAIL record of Rule 4 says of one Award column (<<>>: nothing)
AwardColumnText(award_num, col_result) ==
    LET col_issues ==
            (IF Len(col_result.no_award_parts) > 0
             THEN << <<"Missing award for Part Numbers: ">>
                        \o Join(col_result.no_award_parts, <<", ">>) >>
             ELSE <<>>)
            \o (IF Len(col_result.multiple_award_parts) > 0
                THEN << <<"Multiple awards for Part Numbers: ">>
                            \o Join(col_result.multiple_award_parts, <<", ">>) >>
                ELSE <<>>)
    IN IF Len(col_issues) > 0
       THEN << <<"Award #">> \o award_num \o <<": ">> \o Join(col_issues, <<"; ">>) >>
       ELSE <<>>

\* sorted(award_column_results.keys(), key=int): the keys were inserted in
\* the order validate_awards visited them
AwardActualMessage(cells, award_val) ==
    LET nums == AwardNumsSorted(cells, DOMAIN award_val.award_column_results)
        actual_parts ==
            Flatten([k \in 1..Len(nums) |->
                AwardColumnText(nums[k], award_val.award_column_results[nums[k]])])
    IN IF Len(actual_parts) > 0 THEN Join(actual_parts, <<" | ">>)
       ELSE award_val.message

\* the four records of run_quote_win_validation, from the validator after
\* its four validations
QuoteWinRecords(v) ==
    LET title == v.input_sheet.title
        header_val == v.validation_results.header_validation
        project_val == v.validation_results.project_name_validation
        filter_val == v.validation_results.filter_validation
        award_val == v.validation_results.award_validation
        award_expected ==
            <<"Each Award column must have Award value of 100 for each part number">>
        award_location == <<"Data rows starting at Row ", ToString(data_start_row)>>
    IN <<QuoteWinResult(<<"Rule 1: Header Validation">>, title,
            IF ~header_val.passed THEN "FAIL" ELSE "PASS",
            <<"All required headers present in rows 12 and 16">>,
            IF ~header_val.passed THEN header_val.message
            ELSE <<"All headers present">>,
            <<"Row ", ToString(summary_header_row), " and Row ",
              ToString(header_row)>>),
         QuoteWinResult(<<"Rule 2: Project Name Validation">>, title,
            IF ~project_val.passed THEN "FAIL" ELSE "PASS",
            <<"Project names match between header and data section">>,
            IF ~project_val.passed THEN project_val.message
            ELSE <<"Project names match">>,
            <<"Row ", ToString(project_row), ", Column ",
              ToString(project_value_col)>>),
         QuoteWinResult(<<"Rule 3: Filter Validation">>, title,
            IF ~filter_val.passed THEN "FAIL" ELSE "PASS",
            <<"No filters applied">>,
            IF ~filter_val.passed THEN filter_val.message
            ELSE <<"No filters applied">>,
            <<"Cell A1">>),
         IF ~award_val.passed
         THEN QuoteWinResult(<<"Rule 4: Award Validation">>, title, "FAIL",
                award_expected,
                AwardActualMessage(v.input_sheet.cells, award_val), award_location)
         ELSE QuoteWinResult(<<"Rule 4: Award Validation">>, title, "PASS",
                award_expected,
                <<"All Award columns validated - each part number has exactly one award per column">>,
                award_location)>>

\* validate_headers, validate_project_name, validate_filters and
\* validate_awards in the route's order
AllQuoteWinValidations(v) ==
    validate_awards(validate_filters(validate_project_name(validate_headers(v))))

run_quote_win_validation(sheet) ==
    QuoteWinRecords(AllQuoteWinValidations(Validator(sheet)))

-----------------------------------------------------------------------------
(* The route's BOM run and the /validate request                           *)

\* the schema record run_bom_validation builds from a validator record
BomResult(r) ==
    [rule_name |-> r.rule_name, sheet_name |-> r.sheet_name, status |-> r.status,
     expected |-> r.expected, actual |-> r.actual, location |-> r.location,
     validator_type |-> "BOM"]

run_bom_validation(wb) ==
    LET bom_results == run_all_validations(wb) IN
    [i \in 1..Len(bom_results) |-> BomResult(bom_results[i])]

\* file.filename.endswith(('.xlsx', '.xls'))
IsExcelName(file_name) ==
    Len(file_name) > 0 /\ file_name[Len(file_name)] \in {".xlsx", ".xls"}

\* len(results)
RecordCount(records) == Len(records)

\* sum(1 for r in results if r.status == "PASS")
PassedCount(records) ==
    Cardinality({i \in 1..Len(records) : records[i].status = "PASS"})

ValidationResponse(session_id, records, file_name, validator_type) ==
    [status_code |-> 200, session_id |-> session_id, results |-> records,
     passed |-> PassedCount(records),
     failed |-> RecordCount(records) - PassedCount(records),
     total |-> RecordCount(records), file_name |-> file_name,
     validator_type |-> validator_type]

\* the answer to a request that raised HTTPException
HTTPException(status_code, detail) == [status_code |-> status_code, detail |-> detail]

Session(temp_path, file_name, validator_type, records) ==
    [file_path |-> temp_path, file_name |-> file_name,
     validator_type |-> validator_type, results |-> records]

\* os.path.join(temp_dir, f"{session_id}_{file.filename}")
TempPath(session_id, file_name) == <<ToString(session_id), "_">> \o file_name

\* with open(temp_path, "wb") as f: f.write(content)
WriteFile(files, path, content) ==
    [p \in DOMAIN files \cup {path} |-> IF p = path THEN content ELSE files[p]]

\* a removal that leaves the file where it is
KeepFile(files, path) == files

\* if os.path.exists(path): os.remove(path)
RemoveFile(files, path) == [p \in DOMAIN files \ {path} |-> files[p]]

-----------------------------------------------------------------------------
(* Idle values of the state a specification does not exercise              *)

NoBomRun == workbook = EmptyWorkbook /\ results = <<>>
NoHeuristicCall == cell = EmptyCell /\ ret = <<>>
NoQuoteWinRun ==
    /\ input_sheet = <<>>
    /\ validation_results = <<>>
    /\ comments = <<>>
    /\ fills = {}
    /\ qw_results = <<>>

\* no request has been made
NoRequest == sessions = <<>> /\ temp_files = <<>> /\ request = <<>> /\ response = <<>>

BomUnchanged == UNCHANGED <<workbook, results>>
HeuristicUnchanged == UNCHANGED <<cell, ret>>
QuoteWinUnchanged ==
    UNCHANGED <<input_sheet, validation_results, comments, fills, qw_results>>
RouteUnchanged == UNCHANGED <<sessions, temp_files, request, response>>

\* texts of length 1..n over an alphabet
TextsUpTo(alphabet, n) == UNION {[1..k -> alphabet] : k \in 1..n}

-----------------------------------------------------------------------------
(* The currency heuristic applied to one cell                              *)

MaxValueLen == 2

CurrencyAlphabet == FormatCurrencySymbols \cup {"1", "x"}

CurrencyValues ==
    {None, Num(100), Num(0), Bool(TRUE)}
    \cup {Str(x) : x \in TextsUpTo(CurrencyAlphabet, MaxValueLen)}

CurrencyFormats ==
    {General, <<"#,##0.00">>}
    \cup {<<sym, "#,##0.00">> : sym \in FormatCurrencySymbols}

InitCurrency ==
    /\ pc = "ready"
    /\ cell \in {Cell(v, f) : v \in CurrencyValues, f \in CurrencyFormats}
    /\ ret = <<>>
    /\ NoBomRun /\ NoQuoteWinRun /\ NoRequest

HasCurrency ==
    /\ pc = "ready"
    /\ ret' = <<_has_currency_format_or_symbol(cell)>>
    /\ pc' = "done"
    /\ UNCHANGED cell
    /\ BomUnchanged /\ QuoteWinUnchanged /\ RouteUnchanged

NextCurrency == HasCurrency

SpecCurrency == InitCurrency /\ [][NextCurrency]_vars

\* C7: the heuristic returns false for every cell with no value, whatever
\* its number format.  The code tests the number format first and returns
\* true for an empty cell formatted "$#,##0.00".
C7_EmptyCellIsNotCurrency ==
    (pc = "done" /\ IsNone(cell.value)) => ret = <<FALSE>>

\* C8: for a non-empty cell the heuristic is true iff the format or the text
\* of the value contains a symbol of the one set {$, €, £, ¥, ₹, ¤}.  The
\* code looks for ¤ in the format only: the value "¤1" with format General
\* is not currency.
C8_SameSymbolSetForFormatAndValue ==
    (pc = "done" /\ ~IsNone(cell.value)) =>
        (ret = <<TRUE>>
            <=> (\/ ContainsAny(cell.number_format, FormatCurrencySymbols)
                 \/ ContainsAny(StrOf(cell.value), FormatCurrencySymbols)))

-----------------------------------------------------------------------------
(* Rule 16 applied to one workbook                                         *)

MaxNotesRows == 3
MaxSerial == 3

SerialDigits == {<<ToString(k)>> : k \in 1..MaxSerial} \cup {<<"1", "0">>}

\* what a cell of column A of 'Missing Notes' may hold
NotesColumnACells ==
    {None, Num(2), Str(<<"Notes">>), Str(<<"x", ".", " ", "Notes">>)}
    \cup {Str(d \o <<".", " ", "Notes">>) : d \in SerialDigits}
    \cup {Str(<<" ", "1", " ", ".", "Notes", " ">>)}

NotesSheets ==
    {SheetOf({<<r, 1, Cell(col[r], General)>> : r \in 1..MaxNotesRows})
        : col \in [1..MaxNotesRows -> NotesColumnACells]}

Rule16Workbooks ==
    {Workbook(<<MissingNotes>>, [n \in {MissingNotes} |-> sh]) : sh \in NotesSheets}
    \cup {Workbook(<<BomMatrix>>, [n \in {BomMatrix} |-> EmptySheet])}

InitRule16 ==
    /\ pc = "ready"
    /\ workbook \in Rule16Workbooks
    /\ results = <<>>
    /\ NoHeuristicCall /\ NoQuoteWinRun /\ NoRequest

RunRule16 ==
    /\ pc = "ready"
    /\ results' = validate_rule16_serial_number_standardization(workbook)
    /\ pc' = "done"
    /\ UNCHANGED workbook
    /\ HeuristicUnchanged /\ QuoteWinUnchanged /\ RouteUnchanged

NextRule16 == RunRule16

SpecRule16 == InitRule16 /\ [][NextRule16]_vars

\* the serial numbers of the numbered section headers of column A, in
\* ascending row order
SerialsInRowOrder(sheet) ==
    LET sections == NumberedSections(sheet) IN
    [i \in 1..Len(sections) |-> sections[i].serial]

\* C5: with 'Missing Notes' present, Rule 16 returns one record, PASS iff the
\* serials in row order are exactly 1..N with N >= 1; a FAIL over a non-empty
\* section list names a row whose serial differs from its position, with the
\* expected and the found serial.
C5_Rule16SequentialSerials ==
    (pc = "done" /\ HasSheet(workbook, MissingNotes)) =>
        LET sheet == SheetNamed(workbook, MissingNotes)
            serials == SerialsInRowOrder(sheet)
            sections == NumberedSections(sheet)
        IN /\ Len(results) = 1
           /\ results[1].status \in {"PASS", "FAIL"}
           /\ results[1].status = "PASS"
                <=> (Len(serials) >= 1 /\ serials = [i \in 1..Len(serials) |-> i])
           /\ (results[1].status = "FAIL" /\ Len(serials) >= 1) =>
                \E i \in 1..Len(sections) :
                    /\ sections[i].serial # i
                    /\ Contains(results[1].actual,
                                <<"Row ", ToString(sections[i].row),
                                  ": Expected ", ToString(i),
                                  ", Found ", ToString(sections[i].serial)>>)

\* a run over sections 1, 3, 2: a reordering, reported as a mismatch
C5_Witness ==
    /\ pc = "done" /\ HasSheet(workbook, MissingNotes)
    /\ SerialsInRowOrder(SheetNamed(workbook, MissingNotes)) = <<1, 3, 2>>
    /\ results[1].status = "FAIL"

-----------------------------------------------------------------------------
(* Rule 18 applied to one workbook                                         *)

MaxSerialRows == 2
MaxSerial18 == 2
MaxPartRows == 2

Text(v) == Cell(Str(v), General)
Value(v) == Cell(v, General)

UncostedHeader == <<"1", ".", " ", "Uncosted Parts">>
NextSectionHeader == <<"2", ".", " ", "NCNR Mentioned">>

SlNoHeaders ==
    {Str(<<"S", "I", ".", "n", "o">>), Str(<<"S", "l", ".", "N", "o">>),
     Str(<<"Part">>)}

SerialCells ==
    {None, Str(<<" ", "2">>), Str(<<"x">>)} \cup {Num(k) : k \in 1..MaxSerial18}

\* 'Missing Notes': the section header in A1, the sub-header in B2, the
\* serial cells from B3 down, the next section's header in column A of row
\* `next` (0: none)
NotesSheet18(sub, serials, next) ==
    SheetOf({<<1, 1, Text(UncostedHeader)>>, <<2, 2, Value(sub)>>}
            \cup {<<2 + i, 2, Value(serials[i])>> : i \in 1..Len(serials)}
            \cup {<<next, 1, Text(NextSectionHeader)>> : n \in {next} \ {0}})

NotesSheets18 ==
    {NotesSheet18(Str(<<"S", "l", ".", "N", "o">>), serials, next) :
        serials \in [1..MaxSerialRows -> SerialCells],
        next \in {0} \cup 3..(2 + MaxSerialRows)}
    \cup {NotesSheet18(sub, [i \in 1..MaxSerialRows |-> Num(i)], 0) : sub \in SlNoHeaders}
    \cup {SheetOf({<<1, 1, Text(<<"1", ".", " ", "NCNR Mentioned">>)>>})}

NotesRepresentatives ==
    {NotesSheet18(Str(<<"S", "I", ".", "n", "o">>), serials, 0) :
        serials \in {[i \in 1..MaxSerialRows |-> None],
                     [i \in 1..MaxSerialRows |-> Num(i)],
                     [i \in 1..MaxSerialRows |-> Num(1)]}}

\* what a data row of the CBOM sheet may hold: its 'Is Data' cell and its
\* 'Part Number' cell
DataRows18 ==
    {<<Bool(FALSE), Str(<<"P1">>)>>, <<Bool(FALSE), Str(<<"P1", " ">>)>>,
     <<Bool(FALSE), Str(<<"P2">>)>>, <<Bool(FALSE), None>>, <<Bool(FALSE), Num(7)>>,
     <<Str(<<"False">>), Str(<<"P1">>)>>, <<Str(<<"False">>), Str(<<"P3">>)>>,
     <<Bool(TRUE), Str(<<"P1">>)>>, <<Bool(TRUE), Str(<<"P4">>)>>,
     <<None, Str(<<"P2">>)>>}

\* a '7.0 CBOM VL-{X}' sheet: 'Part Number' in C1, 'Is Data' in AF1 (each only
\* when asked for), the data rows from row 2 down
CbomSheet18(with_part, with_is_data, is_data, parts) ==
    SheetOf({<<1, 3, Text(<<" ", "Part Number">>)>> : b \in {with_part} \ {FALSE}}
            \cup {<<1, IsDataCol, Text(<<"Is Data">>)>> : b \in {with_is_data} \ {FALSE}}
            \cup {<<1 + i, IsDataCol, Value(is_data[i])>> : i \in 1..Len(is_data)}
            \cup {<<1 + i, 3, Value(parts[i])>> : i \in 1..Len(parts)})

CbomSheets18 ==
    {CbomSheet18(TRUE, TRUE, [i \in 1..MaxPartRows |-> rows[i][1]],
                 [i \in 1..MaxPartRows |-> rows[i][2]]) :
        rows \in [1..MaxPartRows -> DataRows18]}
    \cup {CbomSheet18(FALSE, TRUE, [i \in 1..MaxPartRows |-> Bool(FALSE)],
                      [i \in 1..MaxPartRows |-> Str(<<"P1">>)]),
          CbomSheet18(TRUE, FALSE, [i \in 1..MaxPartRows |-> Bool(FALSE)],
                      [i \in 1..MaxPartRows |-> Str(<<"P1">>)])}

CbomRepresentatives ==
    {CbomSheet18(TRUE, TRUE, [i \in 1..MaxPartRows |-> Bool(FALSE)], parts) :
        parts \in {[i \in 1..MaxPartRows |-> None],
                   [i \in 1..MaxPartRows |-> Str(<<"P1">>)],
                   [i \in 1..MaxPartRows |-> Str(<<"P", ToString(i)>>)]}}

VL(digits) == <<CbomVLPrefix>> \o digits

Workbook18(notes, cbom) ==
    Workbook(<<MissingNotes, VL(<<"1">>)>>,
             [n \in {MissingNotes, VL(<<"1">>)} |->
                IF n = MissingNotes THEN notes ELSE cbom])

Rule18Workbooks ==
    {Workbook18(n, c) : n \in NotesSheets18, c \in CbomRepresentatives}
    \cup {Workbook18(n, c) : n \in NotesRepresentatives, c \in CbomSheets18}
    \cup {Workbook(<<MissingNotes>>, [n \in {MissingNotes} |-> sh]) :
            sh \in NotesRepresentatives}
    \cup {Workbook(<<VL(<<"1">>)>>, [n \in {VL(<<"1">>)} |-> sh]) :
            sh \in CbomRepresentatives}

InitRule18 ==
    /\ pc = "ready"
    /\ workbook \in Rule18Workbooks
    /\ results = <<>>
    /\ NoHeuristicCall /\ NoQuoteWinRun /\ NoRequest

RunRule18 ==
    /\ pc = "ready"
    /\ results' = validate_rule18_uncosted_parts_count(workbook)
    /\ pc' = "done"
    /\ UNCHANGED workbook
    /\ HeuristicUnchanged /\ QuoteWinUnchanged /\ RouteUnchanged

NextRule18 == RunRule18

SpecRule18 == InitRule18 /\ [][NextRule18]_vars

\* the six things Rule 18 looks up are all found
Rule18AllFound(wb) ==
    /\ HasSheet(wb, MissingNotes)
    /\ UncostedRows(SheetNamed(wb, MissingNotes)) # {}
    /\ SlNoPlaces(SheetNamed(wb, MissingNotes),
                  Min(UncostedRows(SheetNamed(wb, MissingNotes)))) # {}
    /\ CbomSheets(wb) # {}
    /\ IsDataRows(SheetNamed(wb, LastCbomName(wb))) # {}
    /\ PartNumberCols(SheetNamed(wb, LastCbomName(wb)),
                      Min(IsDataRows(SheetNamed(wb, LastCbomName(wb))))) # {}

\* the rows under the serial sub-header, above the next section's header,
\* whose serial cell holds a number
ListedSerialRows(notes) ==
    LET place == FirstSlNoPlace(SlNoPlaces(notes, Min(UncostedRows(notes)))) IN
    {r \in (place[2] + 1)..max_row(notes) :
        /\ \A q \in (place[2] + 1)..r : ~IsNextSection(CellAt(notes, q, 1))
        /\ SerialValue(CellAt(notes, r, place[1])) # <<>>}

LastListedSerial(notes) ==
    LET place == FirstSlNoPlace(SlNoPlaces(notes, Min(UncostedRows(notes)))) IN
    SerialValue(CellAt(notes, Max(ListedSerialRows(notes)), place[1]))[1]

\* the distinct part numbers (trimmed text) of the rows below the header row
\* whose 'Is Data' cell is the boolean false or the text 'false'
DistinctFalsePartNumbers(cbom) ==
    LET flag_row == Min(IsDataRows(cbom))
        part_col == Min(PartNumberCols(cbom, flag_row))
        flagged == {r \in (flag_row + 1)..max_row(cbom) :
                      LET v == CellAt(cbom, r, IsDataCol).value IN
                      \/ v = Bool(FALSE)
                      \/ IsStr(v) /\ v.s \in {<<"FALSE">>, <<"False">>, <<"false">>}}
    IN {t \in {strip(StrOf(CellAt(cbom, r, part_col).value)) : r \in flagged} :
          \E r \in flagged :
              /\ Truthy(CellAt(cbom, r, part_col).value)
              /\ strip(StrOf(CellAt(cbom, r, part_col).value)) = t}

\* C3 (as stated): with the six lookups found, Rule 18 returns one record,
\* PASS iff the last listed serial equals the count of distinct part numbers
\* flagged Is Data = false, otherwise FAIL with both numbers in its text.
C3_Original ==
    (pc = "done" /\ Rule18AllFound(workbook)) =>
        LET notes == SheetNamed(workbook, MissingNotes)
            count == Cardinality(DistinctFalsePartNumbers(
                        SheetNamed(workbook, LastCbomName(workbook))))
            listed == ListedSerialRows(notes) # {}
        IN /\ Len(results) = 1
           /\ results[1].status \in {"PASS", "FAIL"}
           /\ results[1].status = "PASS"
                <=> (listed /\ LastListedSerial(notes) = count)
           /\ results[1].status = "FAIL" =>
                /\ listed
                /\ Contains(results[1].actual, <<ToString(LastListedSerial(notes))>>)
                /\ Contains(results[1].actual, <<ToString(count)>>)

\* C3 (amended): the same, when in addition at least one serial number is
\* listed under the sub-header; with none listed the record is a FAIL that
\* reports no numbers.
C3_Rule18CountReconciliation ==
    (/\ pc = "done" /\ Rule18AllFound(workbook)
     /\ ListedSerialRows(SheetNamed(workbook, MissingNotes)) # {}) =>
        LET notes == SheetNamed(workbook, MissingNotes)
            last == LastListedSerial(notes)
            count == Cardinality(DistinctFalsePartNumbers(
                        SheetNamed(workbook, LastCbomName(workbook))))
        IN /\ Len(results) = 1
           /\ results[1].status \in {"PASS", "FAIL"}
           /\ results[1].status = "PASS" <=> last = count
           /\ results[1].status = "FAIL" =>
                /\ Contains(results[1].actual, <<ToString(last)>>)
                /\ Contains(results[1].actual, <<ToString(count)>>)
                /\ Contains(results[1].expected, <<ToString(last)>>)
                /\ Contains(results[1].expected, <<ToString(count)>>)

\* a run where the last serial is 2 and one distinct part number is flagged
C3_Witness ==
    /\ pc = "done" /\ Rule18AllFound(workbook)
    /\ ListedSerialRows(SheetNamed(workbook, MissingNotes)) # {}
    /\ LastListedSerial(SheetNamed(workbook, MissingNotes)) = 2
    /\ Cardinality(DistinctFalsePartNumbers(
            SheetNamed(workbook, LastCbomName(workbook)))) = 1
    /\ results[1].status = "FAIL"

-----------------------------------------------------------------------------
(* Rule 19 applied to one workbook                                         *)

MaxFgRows == 2
MaxTotal == 2

FgKeys == {<<"FG1">>, <<"FG2">>}

\* a declared Grand Total: a number, a text, or no Grand Total row at all
DeclaredTotals == {None, Str(<<"1">>)} \cup {Num(k) : k \in 0..MaxTotal}

\* 'Lead Time (FG Wise)': one 'LT in weeks - {FG}' header per entry of fgs,
\* in columns 1, 3, ..., its 'Grand Total' row in row 3 with the count beside
LtSheet(fgs) ==
    SheetOf(UNION {
        {<<1, 2 * i - 1, Text(<<LtInWeeks, " ">> \o fgs[i].key)>>,
         <<2, 2 * i - 1, Text(<<"Row Labels">>)>>}
        \cup {<<3, 2 * i - 1, Text(<<"Grand Total">>)>> :
                b \in {IsNone(fgs[i].total)} \ {TRUE}}
        \cup {<<3, 2 * i, Value(fgs[i].total)>>}
        : i \in 1..Len(fgs)})

LtSheets ==
    {LtSheet(fgs) : fgs \in
        {<<[key |-> <<"FG1">>, total |-> t]>> : t \in DeclaredTotals}
        \cup {<<[key |-> <<"FG1">>, total |-> t], [key |-> k, total |-> u]>> :
                t \in DeclaredTotals, u \in DeclaredTotals, k \in FgKeys}}

\* what a data row of the CBOM sheet may hold: its FG key and its part number
FgDataRows ==
    {<<Str(<<"FG1">>), Str(<<"P1">>)>>, <<Str(<<"FG1">>), Str(<<"P2", " ">>)>>,
     <<Str(<<"FG1">>), None>>, <<Str(<<" ", "FG2">>), Str(<<"P1">>)>>,
     <<Str(<<"FG3">>), Str(<<"P1">>)>>, <<None, Str(<<"P1">>)>>}

\* the last CBOM sheet: 'FG part number' in A1 (when asked for), the FG keys
\* in column A and the part numbers in column C from row 2 down
CbomSheet19(with_header, keys, parts) ==
    SheetOf({<<1, FgKeyCol, Text(<<"FG part number">>)>> : b \in {with_header} \ {FALSE}}
            \cup {<<1, FgPartNumberCol, Text(<<"Part Number">>)>>}
            \cup {<<1 + i, FgKeyCol, Value(keys[i])>> : i \in 1..Len(keys)}
            \cup {<<1 + i, FgPartNumberCol, Value(parts[i])>> : i \in 1..Len(parts)})

CbomSheets19 ==
    {CbomSheet19(TRUE, [i \in 1..MaxFgRows |-> rows[i][1]],
                 [i \in 1..MaxFgRows |-> rows[i][2]]) :
        rows \in [1..MaxFgRows -> FgDataRows]}
    \cup {CbomSheet19(FALSE, [i \in 1..MaxFgRows |-> Str(<<"FG1">>)],
                      [i \in 1..MaxFgRows |-> Str(<<"P1">>)])}

Rule19Workbooks ==
    {Workbook(<<LeadTimeFGWise, VL(<<"1">>)>>,
              [n \in {LeadTimeFGWise, VL(<<"1">>)} |->
                IF n = LeadTimeFGWise THEN lt ELSE cbom]) :
        lt \in LtSheets, cbom \in CbomSheets19}
    \cup {Workbook(<<VL(<<"1">>)>>, [n \in {VL(<<"1">>)} |-> cbom]) :
            cbom \in {CbomSheet19(FALSE, <<>>, <<>>)}}
    \cup {Workbook(<<LeadTimeFGWise>>, [n \in {LeadTimeFGWise} |-> lt]) :
            lt \in {LtSheet(<<[key |-> <<"FG1">>, total |-> Num(1)]>>)}}

InitRule19 ==
    /\ pc = "ready"
    /\ workbook \in Rule19Workbooks
    /\ results = <<>>
    /\ NoHeuristicCall /\ NoQuoteWinRun /\ NoRequest

RunRule19 ==
    /\ pc = "ready"
    /\ results' = validate_rule19_bom_matrix_validation(workbook)
    /\ pc' = "done"
    /\ UNCHANGED workbook
    /\ HeuristicUnchanged /\ QuoteWinUnchanged /\ RouteUnchanged

NextRule19 == RunRule19

SpecRule19 == InitRule19 /\ [][NextRule19]_vars

\* Rule 19 reaches its per-FG comparison
Rule19PerFg(wb) ==
    /\ HasSheet(wb, LeadTimeFGWise)
    /\ Len(FgParts(SheetNamed(wb, LeadTimeFGWise))) > 0
    /\ CbomSheets(wb) # {}
    /\ FgSections(SheetNamed(wb, LastCbomName(wb))) # {}

\* the FG key occurs in some row of column A of the sheet
KeyOccurs(cbom, key) ==
    \E r \in 1..max_row(cbom) :
        strip(StrOf(CellAt(cbom, r, FgKeyCol).value)) = key

\* C4: for every FG key with a declared Grand Total, whatever the declared
\* value: the FG's record is PASS when the total equals the number of
\* distinct part numbers found under the key, and when the key occurs in no
\* row of the last CBOM sheet the record is a FAIL whose actual text says
\* 'Not found'.  The code compares counts first: a key that occurs nowhere,
\* declared with Grand Total 0, gets PASS "0 == 0".
C4_Rule19PerKeyReconciliation ==
    (pc = "done" /\ Rule19PerFg(workbook)) =>
        LET fg_parts == FgParts(SheetNamed(workbook, LeadTimeFGWise))
            cbom == SheetNamed(workbook, LastCbomName(workbook))
        IN /\ Len(results) = Len(fg_parts)
           /\ \A i \in 1..Len(fg_parts) :
                /\ (/\ KeyOccurs(cbom, fg_parts[i].fg_part)
                    /\ CountEquals(fg_parts[i].count,
                            Cardinality(UniqueParts(cbom, fg_parts[i].fg_part))))
                        => results[i].status = "PASS"
                /\ ~KeyOccurs(cbom, fg_parts[i].fg_part) =>
                        /\ results[i].status = "FAIL"
                        /\ Contains(results[i].actual, <<": Not found in CBOM">>)

\* the columns of row 1 of 'Lead Time (FG Wise)' holding an FG header
LtHeaderCols(lt_sheet) ==
    {c \in 1..max_column(lt_sheet) : IsLtHeader(CellAt(lt_sheet, 1, c))}

\* the FG key an FG header names
HeaderKey(lt_sheet, c) == strip(RemoveSym(CellAt(lt_sheet, 1, c).value.s, LtInWeeks))

\* the records of the run that refer to the FG key
RecordsFor(key) ==
    {i \in 1..Len(results) :
        /\ Len(results[i].expected) > Len(key)
        /\ SubSeq(results[i].expected, Len(results[i].expected) - Len(key),
                  Len(results[i].expected)) = <<" for FG ">> \o key}

\* C14: when Rule 19 has run with its prerequisites present, every distinct
\* FG key named by an 'LT in weeks - {FG}' header of row 1 has exactly one
\* record.  The code keeps one entry per header that has a 'Grand Total' row:
\* a key named by two headers gets two records, a key whose header has no
\* 'Grand Total' row gets none.
C14_OneRecordPerFgKey ==
    (pc = "done" /\ Rule19PerFg(workbook)) =>
        LET lt_sheet == SheetNamed(workbook, LeadTimeFGWise) IN
        \A c \in LtHeaderCols(lt_sheet) :
            Cardinality(RecordsFor(HeaderKey(lt_sheet, c))) = 1

\* the half of it about two records: no FG key has more than one record
NoFgKeyWithTwoRecords ==
    (pc = "done" /\ Rule19PerFg(workbook)) =>
        LET lt_sheet == SheetNamed(workbook, LeadTimeFGWise) IN
        \A c \in LtHeaderCols(lt_sheet) :
            Cardinality(RecordsFor(HeaderKey(lt_sheet, c))) <= 1

\* what the code does: one record per header with a 'Grand Total' row, in
\* column order, each referring to the key of its header
Rule19OneRecordPerTotalledHeader ==
    (pc = "done" /\ Rule19PerFg(workbook)) =>
        LET lt_sheet == SheetNamed(workbook, LeadTimeFGWise)
            totalled == Ascending({c \in LtHeaderCols(lt_sheet) :
                                    ~IsNone(GrandTotalValue(lt_sheet, c))})
        IN /\ Len(results) = Len(totalled)
           /\ \A i \in 1..Len(totalled) :
                i \in RecordsFor(HeaderKey(lt_sheet, totalled[i]))

-----------------------------------------------------------------------------
(* Rules 18 and 19 applied to workbooks holding a family of CBOM sheets    *)

MaxFamily == 3

\* 'x' makes a name the pattern rejects
FamilySuffixes ==
    {<<"1">>, <<"2">>, <<"9">>, <<"1", "0">>, <<"0", "2">>, <<"9", "9", "x">>}

\* the sheet orders a workbook can have: no name twice
FamilyOrders ==
    {order \in UNION {[1..k -> {VL(d) : d \in FamilySuffixes}] : k \in 1..MaxFamily} :
        \A i, j \in 1..Len(order) : i # j => order[i] # order[j]}

\* a CBOM sheet serving both rules: one flagged part of FG1 in row 2, and a
\* second one in row 3 when asked for
FamilySheet(second) ==
    SheetOf({<<1, FgKeyCol, Text(<<"FG part number">>)>>,
             <<1, FgPartNumberCol, Text(<<"Part Number">>)>>,
             <<1, IsDataCol, Text(<<"Is Data">>)>>,
             <<2, FgKeyCol, Text(<<"FG1">>)>>,
             <<2, FgPartNumberCol, Text(<<"P1">>)>>,
             <<2, IsDataCol, Value(Bool(FALSE))>>}
            \cup UNION {{<<3, FgKeyCol, Text(<<"FG1">>)>>,
                         <<3, FgPartNumberCol, Text(<<"P2">>)>>,
                         <<3, IsDataCol, Value(Bool(FALSE))>>} : b \in {second} \ {FALSE}})

\* 'Missing Notes' lists one uncosted part; 'Lead Time (FG Wise)' declares one
\* part for FG1
FamilyWorkbook(order, with_second) ==
    Workbook(<<MissingNotes, LeadTimeFGWise>> \o order,
             [n \in {MissingNotes, LeadTimeFGWise} \cup {order[i] : i \in 1..Len(order)} |->
                IF n = MissingNotes
                THEN NotesSheet18(Str(<<"S", "I", ".", "n", "o">>), <<Num(1)>>, 0)
                ELSE IF n = LeadTimeFGWise
                THEN LtSheet(<<[key |-> <<"FG1">>, total |-> Num(1)]>>)
                ELSE FamilySheet(n \in with_second)])

FamilyWorkbooks ==
    {FamilyWorkbook(order, with_second) :
        order \in FamilyOrders,
        with_second \in SUBSET {VL(d) : d \in {<<"9">>, <<"1", "0">>, <<"0", "2">>}}}

InitSheetFamily ==
    /\ pc = "ready"
    /\ workbook \in FamilyWorkbooks
    /\ results = <<>>
    /\ NoHeuristicCall /\ NoQuoteWinRun /\ NoRequest

RunRule18OnFamily ==
    /\ pc = "ready"
    /\ results' = validate_rule18_uncosted_parts_count(workbook)
    /\ pc' = "done"
    /\ UNCHANGED workbook
    /\ HeuristicUnchanged /\ QuoteWinUnchanged /\ RouteUnchanged

RunRule19OnFamily ==
    /\ pc = "ready"
    /\ results' = validate_rule19_bom_matrix_validation(workbook)
    /\ pc' = "done"
    /\ UNCHANGED workbook
    /\ HeuristicUnchanged /\ QuoteWinUnchanged /\ RouteUnchanged

NextSheetFamily == RunRule18OnFamily \/ RunRule19OnFamily

SpecSheetFamily == InitSheetFamily /\ [][NextSheetFamily]_vars

\* the record says the rule worked on the sheet called name
ReportsSheet(record, name) ==
    \/ record.rule_name = Rule18Name /\ record.sheet_name = <<"Missing Notes, ">> \o name
    \/ record.rule_name = Rule19Name /\ record.location = <<"Lead Time vs ">> \o name

\* C6: whatever the order of the sheets, Rules 18 and 19 work on a sheet
\* whose '7.0 CBOM VL-<digits>' suffix is, as an integer, at least that of
\* every other matching sheet (VL-10 over VL-2 and VL-9), and the verdict is
\* the one that sheet's content gives.
C6_LastCbomIsGreatestInteger ==
    (pc = "done" /\ CbomSheets(workbook) # {}) =>
        /\ Len(results) = 1
        /\ \E name \in CbomSheets(workbook) :
            /\ ReportsSheet(results[1], name)
            /\ \A other \in CbomSheets(workbook) :
                    CbomVLNumber(other) <= CbomVLNumber(name)
            /\ results[1].status = "PASS" <=> max_row(SheetNamed(workbook, name)) = 2

\* VL-10 stands before VL-9 and VL-2 in the workbook and is the sheet used
C6_Witness ==
    /\ pc = "done"
    /\ SubSeq(workbook.sheetnames, 3, Len(workbook.sheetnames))
            = <<VL(<<"1", "0">>), VL(<<"9">>), VL(<<"2">>)>>
    /\ ReportsSheet(results[1], VL(<<"1", "0">>))
    /\ results[1].rule_name = Rule19Name

\* the matching sheets whose integer no other matching sheet exceeds
GreatestCbomSheets(wb) ==
    {name \in CbomSheets(wb) :
        \A other \in CbomSheets(wb) : CbomVLNumber(other) <= CbomVLNumber(name)}

\* C23: any two distinct sheet names matching '7.0 CBOM VL-<digits>' yield
\* different integers, so exactly one matching sheet carries the greatest
\* integer and it is the sheet Rules 18 and 19 work on.  'VL-2' and 'VL-02'
\* are distinct names with the same integer: the rule then takes the one
\* the comparison of the names puts last.
C23_DistinctNamesDistinctIntegers ==
    (pc = "done" /\ CbomSheets(workbook) # {}) =>
        /\ \A a, b \in CbomSheets(workbook) :
                a # b => CbomVLNumber(a) # CbomVLNumber(b)
        /\ Cardinality(GreatestCbomSheets(workbook)) = 1
        /\ \A name \in GreatestCbomSheets(workbook) : ReportsSheet(results[1], name)

\* between sheets of the same greatest integer the rules take the name
\* that compares greatest as text, wherever it stands in the workbook
TiedIntegersResolvedByName ==
    (pc = "done" /\ Cardinality(GreatestCbomSheets(workbook)) > 1) =>
        \E name \in GreatestCbomSheets(workbook) :
            /\ ReportsSheet(results[1], name)
            /\ \A other \in GreatestCbomSheets(workbook) \ {name} :
                    DigitTextLess(Tail(other), Tail(name))

\* when the integers differ the sheet worked on is the only greatest one
DistinctIntegersGiveOneGreatest ==
    (/\ pc = "done" /\ CbomSheets(workbook) # {}
     /\ \A a, b \in CbomSheets(workbook) : a # b => CbomVLNumber(a) # CbomVLNumber(b)) =>
        /\ Cardinality(GreatestCbomSheets(workbook)) = 1
        /\ \A name \in GreatestCbomSheets(workbook) : ReportsSheet(results[1], name)

-----------------------------------------------------------------------------
(* validate_headers applied to one sheet                                   *)

MaxDropped == 2

\* every required header once: the static names, and each pattern with #1
FullSummaryRow ==
    required_summary_static_headers
    \o [k \in 1..Len(required_summary_dynamic_patterns) |->
            required_summary_dynamic_patterns[k].pre \o <<"1">>
            \o required_summary_dynamic_patterns[k].suf]

FullMainRow ==
    required_static_headers
    \o [k \in 1..Len(required_dynamic_patterns) |->
            required_dynamic_patterns[k].pre \o <<"1">>
            \o required_dynamic_patterns[k].suf]

\* the two header rows, the columns of `dropped_summary` and `dropped_main`
\* left empty
HeaderCells(dropped_summary, dropped_main) ==
    SheetOf({<<summary_header_row, c, Text(FullSummaryRow[c])>> :
                c \in (1..Len(FullSummaryRow)) \ dropped_summary}
            \cup {<<header_row, c, Text(FullMainRow[c])>> :
                    c \in (1..Len(FullMainRow)) \ dropped_main})

\* cells written over a sheet: headers held untrimmed, in another case, with
\* another number, with no number, with a tail, as a number, and extra ones
HeaderOverlays ==
    {SheetOf({}),
     SheetOf({<<header_row, 1, Text(<<" ", "Project", " ">>)>>,
              <<summary_header_row, 1, Text(<<"Group By Field", " ">>)>>}),
     SheetOf({<<header_row, 1, Text(<<"project">>)>>}),
     SheetOf({<<header_row, 27, Text(<<"Award #", "1", "2">>)>>,
              <<header_row, 29, Text(<<"Award #", "2">>)>>}),
     SheetOf({<<header_row, 27, Text(<<"Award #">>)>>}),
     SheetOf({<<header_row, 27, Text(<<"Award #", "1", "x">>)>>,
              <<summary_header_row, 2, Text(<<"x", "Ext Vol (Splits) #", "1">>)>>}),
     SheetOf({<<header_row, 2, Value(Num(5))>>,
              <<header_row, 29, Text(<<"Extra">>)>>,
              <<summary_header_row, 6, Text(<<"Extra">>)>>}),
     SheetOf({<<header_row, 29, Text(<<"Project">>)>>,
              <<summary_header_row, 7, Text(<<"Part Number">>)>>,
              <<header_row, 30, Text(<<"Group By Field">>)>>})}

\* the subsets of S with at most k elements
RECURSIVE SetsUpTo(_, _)
SetsUpTo(S, k) ==
    IF k = 0 THEN {{}}
    ELSE SetsUpTo(S, k - 1) \cup {d \cup {x} : d \in SetsUpTo(S, k - 1), x \in S}

HeaderSheets ==
    {Overlay(HeaderCells(dropped_summary, dropped_main), over) :
        dropped_summary \in {{}, {1}, {2, 3}, 1..Len(FullSummaryRow)},
        dropped_main \in SetsUpTo(1..Len(FullMainRow), 1),
        over \in HeaderOverlays}
    \cup {HeaderCells(dropped_summary, dropped_main) :
            dropped_summary \in {{}, {2, 3}},
            dropped_main \in SetsUpTo(1..Len(FullMainRow), MaxDropped)}

SheetTitle == <<"Sheet1">>

InitHeaders ==
    /\ pc = "ready"
    /\ input_sheet \in {InputSheet(SheetTitle, cells, <<>>) : cells \in HeaderSheets}
    /\ validation_results = InitialValidationResults
    /\ comments = <<>>
    /\ fills = {}
    /\ qw_results = <<>>
    /\ NoBomRun /\ NoHeuristicCall /\ NoRequest

ValidateHeaders ==
    /\ pc = "ready"
    /\ LET v == validate_headers(Validator(input_sheet)) IN
        /\ validation_results' = v.validation_results
        /\ comments' = v.comments
        /\ fills' = v.fills
    /\ pc' = "done"
    /\ UNCHANGED <<input_sheet, qw_results>>
    /\ BomUnchanged /\ HeuristicUnchanged /\ RouteUnchanged

NextHeaders == ValidateHeaders

SpecHeaders == InitHeaders /\ [][NextHeaders]_vars

\* some cell of the row holds the header, whitespace around it aside
HeaderPresent(cells, row, header) ==
    \E c \in 1..max_column(cells) :
        LET value == CellAt(cells, row, c).value IN
        Truthy(value) /\ strip(StrOf(value)) = header

\* some cell of the row matches the pattern, whitespace around it aside
PatternPresent(cells, row, pattern) ==
    \E c \in 1..max_column(cells) :
        LET value == CellAt(cells, row, c).value IN
        Truthy(value) /\ re_match(pattern, strip(StrOf(value)))

\* the static headers and the pattern groups the two rows lack
MissingRequired(cells) ==
    {required_summary_static_headers[i] : i \in
        {j \in 1..Len(required_summary_static_headers) :
            ~HeaderPresent(cells, summary_header_row, required_summary_static_headers[j])}}
    \cup {pattern_name(required_summary_dynamic_patterns[i]) : i \in
        {j \in 1..Len(required_summary_dynamic_patterns) :
            ~PatternPresent(cells, summary_header_row, required_summary_dynamic_patterns[j])}}
    \cup {required_static_headers[i] : i \in
        {j \in 1..Len(required_static_headers) :
            ~HeaderPresent(cells, header_row, required_static_headers[j])}}
    \cup {pattern_name(required_dynamic_patterns[i]) : i \in
        {j \in 1..Len(required_dynamic_patterns) :
            ~PatternPresent(cells, header_row, required_dynamic_patterns[j])}}

\* C9: validate_headers passes iff every required static header is present
\* in its row (trimmed, exact) and every required pattern of each row is
\* matched by some header cell of that row; on failure the missing list
\* holds exactly the missing static headers and the pattern groups with no
\* match, each once, and nothing else.
C9_HeadersPassIffAllRequiredPresent ==
    pc = "done" =>
        LET header_val == validation_results.header_validation
            missing == MissingRequired(input_sheet.cells)
        IN /\ header_val.passed <=> missing = {}
           /\ ~header_val.passed =>
                /\ {header_val.missing_headers[i] :
                        i \in 1..Len(header_val.missing_headers)} = missing
                /\ Len(header_val.missing_headers) = Cardinality(missing)

\* a failing run over a sheet that holds 'Project' untrimmed, lacks one
\* static header and carries extra headers
C9_Witness ==
    /\ pc = "done"
    /\ ~validation_results.header_validation.passed
    /\ validation_results.header_validation.missing_headers = << <<"Part Number">> >>
    /\ CellAt(input_sheet.cells, header_row, 29).value = Str(<<"Extra">>)

-----------------------------------------------------------------------------
(* validate_awards and the route's run applied to one sheet                *)

MaxAwardRows == 2

Award(digits) == Text(<<"Award #">> \o digits)

\* header rows: 'Project' in column A, then the cells given, column B on
AwardHeaderRows ==
    {<<Text(<<"Part Number">>), Award(<<"1">>)>>,
     <<Text(<<"Part Number">>), Award(<<"1">>), Award(<<"2">>)>>,
     <<Text(<<"Part Number">>), Award(<<"1", "0">>), Award(<<"2">>)>>,
     <<Text(<<"Part Number">>), Award(<<"1">>), Award(<<"1">>)>>,
     <<Text(<<"Part Number">>), Award(<<"1">>), Award(<<"0", "1">>)>>,
     <<Text(<<" ", "Part Number">>), Text(<<" ", "Award #", "1", " ">>)>>,
     <<Text(<<"Part Number">>), Text(<<"Award #">>)>>,
     <<Text(<<"Part Number">>), Text(<<"Source #", "1">>)>>,
     <<Text(<<"Part No">>), Award(<<"1">>)>>,
     <<EmptyCell, Award(<<"1">>), Award(<<"2">>)>>}

AwardPartCells == {None, Str(<<"P1">>), Str(<<" ", "P1">>), Str(<<"P2">>), Str(<<" ">>)}

AwardCells ==
    {None, Num(100), Str(<<" ">> \o Hundred \o <<" ">>), Num(50), Str(<<"1", "0">>)}

\* the sheet: the project in D3 and A18 down, the header row, and the data
\* rows: the part number in column B, the first award cell in column C, and
\* in column D 100 on the first data row only
AwardSheet(headers, parts, awards) ==
    SheetOf({<<project_row, project_value_col, Text(<<"Proj">>)>>,
             <<header_row, 1, Text(<<"Project">>)>>}
            \cup {<<header_row, 1 + c, headers[c]>> : c \in 1..Len(headers)}
            \cup {<<data_start_row - 1 + i, 1, Text(<<"Proj">>)>> : i \in 1..Len(parts)}
            \cup {<<data_start_row - 1 + i, 2, Value(parts[i])>> : i \in 1..Len(parts)}
            \cup {<<data_start_row - 1 + i, 3, Value(awards[i])>> : i \in 1..Len(parts)}
            \cup {<<data_start_row, 4, Value(Num(100))>>})

\* every header row over the rows of one part number, and two header rows
\* over every choice of part numbers and award cells
AwardSheets ==
    {AwardSheet(headers, parts, awards) :
        headers \in AwardHeaderRows,
        parts \in [1..MaxAwardRows -> {Str(<<"P1">>)}],
        awards \in [1..MaxAwardRows -> {None, Num(100)}]}
    \cup {AwardSheet(headers, parts, awards) :
        headers \in {<<Text(<<"Part Number">>), Award(<<"1">>)>>,
                     <<Text(<<"Part Number">>), Award(<<"1", "0">>), Award(<<"2">>)>>},
        parts \in [1..MaxAwardRows -> AwardPartCells],
        awards \in [1..MaxAwardRows -> AwardCells]}

InitAwards ==
    /\ pc = "ready"
    /\ input_sheet \in {InputSheet(SheetTitle, cells, <<>>) : cells \in AwardSheets}
    /\ validation_results = InitialValidationResults
    /\ comments = <<>>
    /\ fills = {}
    /\ qw_results = <<>>
    /\ NoBomRun /\ NoHeuristicCall /\ NoRequest

\* validate_awards on a freshly loaded validator
ValidateAwards ==
    /\ pc = "ready"
    /\ LET v == validate_awards(Validator(input_sheet)) IN
        /\ validation_results' = v.validation_results
        /\ comments' = v.comments
        /\ fills' = v.fills
    /\ pc' = "validated"
    /\ UNCHANGED <<input_sheet, qw_results>>
    /\ BomUnchanged /\ HeuristicUnchanged /\ RouteUnchanged

\* run_quote_win_validation: the four validations and their four records
RunQuoteWinValidation ==
    /\ pc = "ready"
    /\ LET v == AllQuoteWinValidations(Validator(input_sheet)) IN
        /\ validation_results' = v.validation_results
        /\ comments' = v.comments
        /\ fills' = v.fills
        /\ qw_results' = QuoteWinRecords(v)
    /\ pc' = "done"
    /\ UNCHANGED input_sheet
    /\ BomUnchanged /\ HeuristicUnchanged /\ RouteUnchanged

NextAwards == ValidateAwards \/ RunQuoteWinValidation

SpecAwards == InitAwards /\ [][NextAwards]_vars

\* the columns of the header row holding an 'Award #N' header
AwardColumnsOfHeaderRow(cells) ==
    {c \in 1..max_column(cells) :
        LET value == CellAt(cells, header_row, c).value IN
        IsStr(value) /\ re_match(AwardPattern, strip(value.s))}

\* the columns of the header row holding 'Part Number'
PartNumberColumnsOfHeaderRow(cells) ==
    {c \in 1..max_column(cells) :
        LET value == CellAt(cells, header_row, c).value IN
        IsStr(value) /\ strip(value.s) = <<"Part Number">>}

\* the data rows of a part number (trimmed text)
RowsOfPart(cells, part_col, part) ==
    {r \in data_start_row..max_row(cells) :
        LET value == CellAt(cells, r, part_col).value IN
        ~IsNone(value) /\ strip(StrOf(value)) = part}

\* the distinct non-empty part numbers of the data rows
DistinctParts(cells, part_col) ==
    {strip(StrOf(CellAt(cells, r, part_col).value)) :
        r \in {q \in data_start_row..max_row(cells) :
                ~IsNone(CellAt(cells, q, part_col).value)}} \ {<<>>}

\* the cell holds 100: the number 100, or the text '100' once trimmed
Holds100(value) ==
    \/ value.t = "num" /\ value.n = 100
    \/ IsStr(value) /\ strip(value.s) = <<"1", "0", "0">>

HundredRows(cells, part_col, part, col) ==
    {r \in RowsOfPart(cells, part_col, part) : Holds100(CellAt(cells, r, col).value)}

InSeq(x, seq) == \E i \in 1..Len(seq) : seq[i] = x

\* the reconciliation of one Award column, read from the results kept under
\* the column's award number
ColumnReconciled(cells, part_col, col, column_results) ==
    LET num == Tail(strip(CellAt(cells, header_row, col).value.s)) IN
    /\ num \in DOMAIN column_results
    /\ \A part \in DistinctParts(cells, part_col) :
        LET hundreds == Cardinality(HundredRows(cells, part_col, part, col)) IN
        /\ InSeq(part, column_results[num].no_award_parts) <=> hundreds = 0
        /\ InSeq(part, column_results[num].multiple_award_parts) <=> hundreds >= 2

\* C2: for every 'Award #N' column of the header row and every distinct
\* non-empty part number, the part number is in that column's
\* no_award_parts iff none of its rows holds 100 in that column, in
\* multiple_award_parts iff two or more do, in neither iff exactly one
\* does; and the award rule passes iff both lists are empty for every
\* Award column.  The results are kept per award number: of two columns
\* headed with the same number only the right one is examined.
C2_AwardReconciliationPerColumn ==
    (/\ pc = "validated"
     /\ AwardColumnsOfHeaderRow(input_sheet.cells) # {}
     /\ PartNumberColumnsOfHeaderRow(input_sheet.cells) # {}) =>
        LET cells == input_sheet.cells
            part_col == Min(PartNumberColumnsOfHeaderRow(cells))
            award_val == validation_results.award_validation
        IN /\ \A col \in AwardColumnsOfHeaderRow(cells) :
                ColumnReconciled(cells, part_col, col, award_val.award_column_results)
           /\ award_val.passed <=>
                \A num \in DOMAIN award_val.award_column_results :
                    /\ award_val.award_column_results[num].no_award_parts = <<>>
                    /\ award_val.award_column_results[num].multiple_award_parts = <<>>

\* the same reconciliation over the sheets whose Award columns carry
\* different numbers
AwardReconciliationDistinctNumbers ==
    (\A c, d \in AwardColumnsOfHeaderRow(input_sheet.cells) :
        c # d => CellAt(input_sheet.cells, header_row, c).value
                    # CellAt(input_sheet.cells, header_row, d).value)
        => C2_AwardReconciliationPerColumn

\* C10: when the header row holds no 'Award #N' column, or no 'Part Number'
\* column, the award rule's record has status FAIL.  validate_awards
\* returns early there and leaves the rule passed, so the record is PASS.
C10_MissingAwardHeadersFail ==
    (/\ pc = "done"
     /\ \/ AwardColumnsOfHeaderRow(input_sheet.cells) = {}
        \/ PartNumberColumnsOfHeaderRow(input_sheet.cells) = {}) =>
        /\ Len(qw_results) = 4
        /\ qw_results[4].rule_name = <<"Rule 4: Award Validation">>
        /\ qw_results[4].status = "FAIL"


-----------------------------------------------------------------------------
(* Specification: each rule run once on a workbook that lacks some sheets  *)

\* the sheets a workbook of this specification may hold, in workbook order
CandidateSheets ==
    <<MissingNotes, AClassParts, BomMatrix, Summary, LeadTimeFGWise, CbomProto,
      ExInvProto, <<"7.0 CBOM VL-", "1">>>>

\* a BOM MATRIX with both proto headers, and one with a dated Effective Date
ProtoBomMatrix ==
    SheetOf({<<1, 1, Cell(Str(<<"Proto Qty">>), General)>>,
             <<1, 2, Cell(Str(<<"Proto Price">>), General)>>})

DatedBomMatrix ==
    SheetOf({<<1, 1, Cell(Str(<<"Effective Date">>), General)>>,
             <<2, 1, Cell(Str(<<"0", "1", "/", "1", "5", "/", "2", "0", "2", "5">>),
                          General)>>})

\* a Missing Notes with one numbered section
SectionedMissingNotes ==
    SheetOf({<<1, 1, Cell(Str(<<"1", ".", " ", "Proto Pricing No Cost">>), General)>>})

SheetContents(name) ==
    IF name = BomMatrix THEN {EmptySheet, ProtoBomMatrix, DatedBomMatrix}
    ELSE IF name = MissingNotes THEN {EmptySheet, SectionedMissingNotes}
    ELSE {EmptySheet}

\* the subsequence of CandidateSheets at the positions `held`
NamesHeld(held) ==
    LET positions == Ascending(held) IN
    [i \in 1..Len(positions) |-> CandidateSheets[positions[i]]]

MissingSheetWorkbooks ==
    UNION {LET names == NamesHeld(held)
               present == {names[i] : i \in 1..Len(names)}
           IN {Workbook(names, sheets) :
                  sheets \in {f \in [present -> UNION {SheetContents(n) : n \in present}] :
                                 \A n \in present : f[n] \in SheetContents(n)}}
           : held \in SUBSET (1..Len(CandidateSheets))}

InitMissingSheet ==
    /\ pc = "ready"
    /\ workbook \in MissingSheetWorkbooks
    /\ results = <<>>
    /\ NoHeuristicCall /\ NoQuoteWinRun /\ NoRequest

\* one rule evaluated on the workbook; pc then names the rule
RunRule(rule, rule_results) ==
    /\ pc = "ready"
    /\ results' = rule_results
    /\ pc' = rule
    /\ UNCHANGED workbook
    /\ HeuristicUnchanged /\ QuoteWinUnchanged /\ RouteUnchanged

RunRule2 == RunRule("rule2", validate_rule2_corrected_mpn(workbook))
RunRule7 == RunRule("rule7", validate_rule7_currency_a_class_parts(workbook))
RunRule8 == RunRule("rule8", validate_rule8_quoted_mfr(workbook))
RunRule9 == RunRule("rule9", validate_rule9_nrfnd_missing(workbook))
RunRule10 == RunRule("rule10", validate_rule10_currency_bom_matrix(workbook))
RunRule11 == RunRule("rule11", validate_rule11_cbom_proto_sheet(workbook))
RunRule12 == RunRule("rule12", validate_rule12_proto_volume_summary(workbook))
RunRule13 == RunRule("rule13", validate_rule13_proto_pricing_missing_notes(workbook))
RunRule14 == RunRule("rule14", validate_rule14_ex_inv_proto_sheet(workbook))
RunRule15 == RunRule("rule15", validate_rule15_proto_columns_bom_matrix(workbook))
RunRule16OnAny == RunRule("rule16", validate_rule16_serial_number_standardization(workbook))
RunRule17 == RunRule("rule17", validate_rule17_price_validity_date_format(workbook))
RunRule18OnAny == RunRule("rule18", validate_rule18_uncosted_parts_count(workbook))
RunRule19OnAny == RunRule("rule19", validate_rule19_bom_matrix_validation(workbook))

NextMissingSheet ==
    \/ RunRule2 \/ RunRule7 \/ RunRule8 \/ RunRule9 \/ RunRule10
    \/ RunRule11 \/ RunRule12 \/ RunRule13 \/ RunRule14 \/ RunRule15
    \/ RunRule16OnAny \/ RunRule17 \/ RunRule18OnAny \/ RunRule19OnAny

SpecMissingSheet == InitMissingSheet /\ [][NextMissingSheet]_vars

\* the fixed-name sheet each rule reads
AnchorSheet(rule) ==
    CASE rule \in {"rule2", "rule8", "rule9", "rule13", "rule16", "rule18"} -> MissingNotes
      [] rule = "rule7" -> AClassParts
      [] rule \in {"rule10", "rule11", "rule14", "rule15", "rule17"} -> BomMatrix
      [] rule = "rule12" -> Summary
      [] rule = "rule19" -> LeadTimeFGWise

\* exactly one record, a FAIL, naming the sheet
OneFailNaming(rule_results, sheet_name) ==
    /\ Len(rule_results) = 1
    /\ rule_results[1].status = "FAIL"
    /\ rule_results[1].sheet_name = sheet_name

ProtoRules == {"rule11", "rule14", "rule15"}

\* C1: whenever a rule of 2, 7, 8, 9, 10, 11, 12, 13, 14, 15, 16, 17, 18, 19
\* has been evaluated on a workbook that lacks the fixed-name sheet the rule
\* reads, the rule returned exactly one record, with status FAIL, naming the
\* absent sheet.
C1_MissingSheetGivesOneFail ==
    (pc # "ready" /\ ~HasSheet(workbook, AnchorSheet(pc)))
        => OneFailNaming(results, AnchorSheet(pc))

\* the same for the rules other than the proto rules 11, 14 and 15
MissingSheetFailOutsideProtoRules ==
    (pc # "ready" /\ pc \notin ProtoRules /\ ~HasSheet(workbook, AnchorSheet(pc)))
        => OneFailNaming(results, AnchorSheet(pc))

\* a proto rule run without 'BOM MATRIX' returns a single record, never a
\* FAIL naming 'BOM MATRIX' unless the rule is 15 and '7.0 CBOM Proto' exists
ProtoRulesWithoutBomMatrix ==
    (pc \in ProtoRules /\ ~HasSheet(workbook, BomMatrix))
        => /\ Len(results) = 1
           /\ results[1].status = "FAIL" <=>
                HasSheet(workbook, IF pc = "rule14" THEN ExInvProto ELSE CbomProto)

-----------------------------------------------------------------------------
(* Rules 3 and 5 applied to one sheet of their family                      *)

ExInv1 == <<ExInvVLPrefix, "1">>
Cbom1 == <<CbomVLPrefix, "1">>

PricedCell == Cell(Num(100), <<"$", "#,##0.00">>)
PlainCell == Cell(Num(100), General)

\* what a sheet holds for one header: nothing, the header over a priced
\* cell, the header under a priced cell, the header over a plain number
HeaderStates == {"absent", "below", "above", "plain"}

\* the header at row 2 of column `col`, with the cell its state calls for
HeaderColumn(header, col, state) ==
    CASE state = "absent" -> {}
      [] state = "below" -> {<<2, col, Cell(Str(header), General)>>,
                             <<3, col, PricedCell>>}
      [] state = "above" -> {<<2, col, Cell(Str(header), General)>>,
                             <<1, col, PricedCell>>}
      [] state = "plain" -> {<<2, col, Cell(Str(header), General)>>,
                             <<3, col, PlainCell>>}

HeaderSheet(headers, states) ==
    SheetOf(UNION {HeaderColumn(headers[i], i, states[i]) : i \in 1..Len(headers)})

CbomCurrencyWorkbooks ==
    {Workbook(<<Cbom1>>, Cbom1 :> HeaderSheet(Rule3Headers(<<"1">>), states)) :
        states \in [1..2 -> HeaderStates]}

ExInvCurrencyWorkbooks ==
    {Workbook(<<ExInv1>>, ExInv1 :> HeaderSheet(Rule5Headers(<<"1">>), states)) :
        states \in [1..6 -> HeaderStates \ {"above"}]}

InitFamilyCurrency ==
    /\ pc = "ready"
    /\ workbook \in CbomCurrencyWorkbooks \cup ExInvCurrencyWorkbooks
    /\ results = <<>>
    /\ NoHeuristicCall /\ NoQuoteWinRun /\ NoRequest

RunRule3 == RunRule("rule3", validate_rule3_currency_symbols_cbom(workbook))
RunRule5 == RunRule("rule5", validate_rule5_currency_symbols_ex_inv(workbook))

NextFamilyCurrency == RunRule3 \/ RunRule5

SpecFamilyCurrency == InitFamilyCurrency /\ [][NextFamilyCurrency]_vars

\* the required headers of the one sheet the rule at pc reads
RequiredHeaders ==
    IF pc = "rule3" THEN Rule3Headers(<<"1">>) ELSE Rule5Headers(<<"1">>)

FamilySheetName == IF pc = "rule3" THEN Cbom1 ELSE ExInv1

HeaderAbsent(h) ==
    ExactPlaces(SheetNamed(workbook, FamilySheetName), Rule5RowLimit, Rule5ColLimit, h)
        = {}

HeaderWithoutCurrency(h) ==
    LET sheet == SheetNamed(workbook, FamilySheetName)
        found == ExactPlaces(sheet, Rule5RowLimit, Rule5ColLimit, h)
    IN /\ found # {}
       /\ ~HasCurrencyNear(sheet, FirstPlace(found)[1], FirstPlace(found)[2],
                           CurrencyBelow, CurrencyAbove)

SomeHeaderAbsent ==
    \E i \in 1..Len(RequiredHeaders) : HeaderAbsent(RequiredHeaders[i])

SomeHeaderWithoutCurrency ==
    \E i \in 1..Len(RequiredHeaders) : HeaderWithoutCurrency(RequiredHeaders[i])

FamilyRuleRan ==
    /\ pc \in {"rule3", "rule5"}
    /\ HasSheet(workbook, FamilySheetName)

\* C11: after Rule 3 or Rule 5 has run on a sheet of its family, the sheet's
\* record is FAIL when a required header is absent, FAIL when a required
\* header is present with no currency evidence below or above it, and PASS
\* only when every required header is present with currency evidence.  Rule 5
\* returns PASS for a sheet with a header absent when it has noted at most
\* two shortcomings.
C11_FamilyCurrencyRecord ==
    FamilyRuleRan =>
        /\ Len(results) = 1
        /\ SomeHeaderAbsent => results[1].status = "FAIL"
        /\ SomeHeaderWithoutCurrency => results[1].status = "FAIL"
        /\ results[1].status = "PASS" =>
              ~SomeHeaderAbsent /\ ~SomeHeaderWithoutCurrency

\* the same for Rule 3 alone, with its two reasons
Rule3RecordFollowsHeaders ==
    (pc = "rule3" /\ HasSheet(workbook, Cbom1)) =>
        /\ Len(results) = 1
        /\ SomeHeaderAbsent =>
              /\ results[1].status = "FAIL"
              /\ Contains(results[1].actual, <<"Missing headers: ">>)
        /\ (~SomeHeaderAbsent /\ SomeHeaderWithoutCurrency) =>
              /\ results[1].status = "FAIL"
              /\ Contains(results[1].actual, <<"No currency format in: ">>)
        /\ results[1].status = "PASS" <=>
              ~SomeHeaderAbsent /\ ~SomeHeaderWithoutCurrency

\* Rule 5 passes a sheet exactly when nothing is noted, or at most two
\* shortcomings are noted and one of them is an absent header
Rule5PassesWithMinorVariations ==
    (pc = "rule5" /\ HasSheet(workbook, ExInv1)) =>
        LET noted == {i \in 1..6 : \/ HeaderAbsent(RequiredHeaders[i])
                                   \/ HeaderWithoutCurrency(RequiredHeaders[i])}
        IN results[1].status = "PASS" <=>
              \/ noted = {}
              \/ /\ Cardinality(noted) <= MinorVariations
                 /\ SomeHeaderAbsent

-----------------------------------------------------------------------------
(* Rules 7 and 10 applied to a sheet holding some of their price headers   *)

Rule7SampleHeaders ==
    <<<<"Cost #", "1">>, <<"Ext Price (Splits) #", "1">>,
      <<"Ext Vol Cost (Splits) #", "1">>>>

Rule10SampleHeaders == <<<<"Unit Price">>, <<"Net Excess Cost">>, <<"VL-", "1">>>>

PriceHeaderWorkbooks ==
    {Workbook(<<AClassParts>>, AClassParts :> HeaderSheet(Rule7SampleHeaders, states)) :
        states \in [1..3 -> HeaderStates]}
    \cup
    {Workbook(<<BomMatrix>>, BomMatrix :> HeaderSheet(Rule10SampleHeaders, states)) :
        states \in [1..3 -> HeaderStates]}

InitPriceHeaders ==
    /\ pc = "ready"
    /\ workbook \in PriceHeaderWorkbooks
    /\ results = <<>>
    /\ NoHeuristicCall /\ NoQuoteWinRun /\ NoRequest

RunRule7OnHeaders == RunRule("rule7", validate_rule7_currency_a_class_parts(workbook))
RunRule10OnHeaders == RunRule("rule10", validate_rule10_currency_bom_matrix(workbook))

NextPriceHeaders == RunRule7OnHeaders \/ RunRule10OnHeaders

SpecPriceHeaders == InitPriceHeaders /\ [][NextPriceHeaders]_vars

PriceSheetName == IF pc = "rule7" THEN AClassParts ELSE BomMatrix

\* the cells of the rule's window holding one of the rule's price headers
PriceHeaderPlaces ==
    LET sheet == SheetNamed(workbook, PriceSheetName) IN
    IF pc = "rule7"
    THEN {rc \in TextPlaces(sheet, Rule7RowLimit, Rule7ColLimit) :
            \/ startswith(sheet[rc].value.s, <<"Cost #">>)
            \/ Contains(sheet[rc].value.s, <<"Ext Price (Splits) #">>)
            \/ Contains(sheet[rc].value.s, <<"Ext Vol Cost (Splits) #">>)}
    ELSE {rc \in TextPlaces(sheet, Rule10RowLimit, Rule10ColLimit) :
            \/ Contains(sheet[rc].value.s, <<"Unit Price">>)
            \/ Contains(sheet[rc].value.s, <<"Net Excess Cost">>)
            \/ Contains(sheet[rc].value.s, <<"Grand Total">>)
            \/ startswith(strip(sheet[rc].value.s), <<"VL-">>)}

PriceRuleRan ==
    /\ pc \in {"rule7", "rule10"}
    /\ HasSheet(workbook, PriceSheetName)

\* C12: after Rule 7 or Rule 10 has run on a workbook holding its sheet, the
\* record is FAIL when none of the rule's price headers is inside the search
\* window, and PASS only if some header is found and every found header has
\* currency evidence below or above it.  Both rules return PASS for a sheet
\* with none of the headers: nothing is found, so nothing lacks currency.
C12_PriceHeadersRequired ==
    PriceRuleRan =>
        /\ Len(results) = 1
        /\ PriceHeaderPlaces = {} => results[1].status = "FAIL"
        /\ results[1].status = "PASS" =>
              /\ PriceHeaderPlaces # {}
              /\ \A rc \in PriceHeaderPlaces :
                    HasCurrencyNear(SheetNamed(workbook, PriceSheetName), rc[1], rc[2],
                                    CurrencyBelow, CurrencyAbove)

\* what the two rules do: PASS exactly when no found header lacks currency
PriceRulesPassWhenNothingLacksCurrency ==
    PriceRuleRan =>
        /\ Len(results) = 1
        /\ results[1].status = "PASS" <=>
              \A rc \in PriceHeaderPlaces :
                  HasCurrencyNear(SheetNamed(workbook, PriceSheetName), rc[1], rc[2],
                                  CurrencyBelow, CurrencyAbove)

-----------------------------------------------------------------------------
(* Rules 11 to 15 applied to workbooks with and without the proto headers  *)

\* what 'BOM MATRIX' holds: no proto header, one of the two, both, or both
\* with 'Proto Qty' under the last row the check reads
ProtoMatrixSheets ==
    {EmptySheet,
     SheetOf({<<1, 1, Cell(Str(<<"Proto Qty">>), General)>>}),
     SheetOf({<<1, 2, Cell(Str(<<"Proto Price">>), General)>>}),
     ProtoBomMatrix,
     SheetOf({<<ProtoRowLimit + 1, 1, Cell(Str(<<"Proto Qty">>), General)>>,
              <<1, 2, Cell(Str(<<"Proto Price">>), General)>>})}

ProtoSummarySheets ==
    {EmptySheet, SheetOf({<<2, 3, Cell(Str(<<"Proto Volume">>), General)>>})}

\* a Missing Notes with no section, a numbered one, and one with no number
ProtoNotesSheets ==
    {EmptySheet, SectionedMissingNotes,
     SheetOf({<<1, 1, Cell(Str(<<"Proto Pricing No Cost">>), General)>>})}

\* a workbook holds a sheet under a name (<<sheet>>) or lacks it (<<>>)
Maybe(sheets) == {<<>>} \cup {<<sheet>> : sheet \in sheets}

ProtoChoices ==
    [matrix : Maybe(ProtoMatrixSheets),
     summary : Maybe(ProtoSummarySheets),
     notes : Maybe(ProtoNotesSheets),
     cbom_proto : Maybe({EmptySheet}),
     ex_inv_proto : Maybe({EmptySheet})]

ProtoWorkbook(c) ==
    LET held == <<<<BomMatrix, c.matrix>>, <<Summary, c.summary>>,
                  <<MissingNotes, c.notes>>, <<CbomProto, c.cbom_proto>>,
                  <<ExInvProto, c.ex_inv_proto>>>>
        kept == SelectSeq(held, LAMBDA h : Len(h[2]) > 0)
    IN Workbook([i \in 1..Len(kept) |-> kept[i][1]],
                [n \in {kept[i][1] : i \in 1..Len(kept)} |->
                    kept[CHOOSE i \in 1..Len(kept) : kept[i][1] = n][2][1]])

InitProto ==
    /\ pc = "ready"
    /\ workbook \in {ProtoWorkbook(c) : c \in ProtoChoices}
    /\ results = <<>>
    /\ NoHeuristicCall /\ NoQuoteWinRun /\ NoRequest

RunRule11OnProto == RunRule("rule11", validate_rule11_cbom_proto_sheet(workbook))
RunRule12OnProto == RunRule("rule12", validate_rule12_proto_volume_summary(workbook))
RunRule13OnProto ==
    RunRule("rule13", validate_rule13_proto_pricing_missing_notes(workbook))
RunRule14OnProto == RunRule("rule14", validate_rule14_ex_inv_proto_sheet(workbook))
RunRule15OnProto ==
    RunRule("rule15", validate_rule15_proto_columns_bom_matrix(workbook))

NextProto ==
    \/ RunRule11OnProto \/ RunRule12OnProto \/ RunRule13OnProto
    \/ RunRule14OnProto \/ RunRule15OnProto

SpecProto == InitProto /\ [][NextProto]_vars

\* a text cell of the sheet's first rows and columns contains the header
HeaderInWindow(name, rows, cols, header) ==
    /\ HasSheet(workbook, name)
    /\ \E rc \in DOMAIN SheetNamed(workbook, name) :
          LET v == SheetNamed(workbook, name)[rc].value IN
          /\ rc[1] <= rows /\ rc[2] <= cols
          /\ IsStr(v) /\ Contains(v.s, header)

\* both 'Proto Qty' and 'Proto Price' are found in the 'BOM MATRIX' window
ProtoSignal ==
    /\ HeaderInWindow(BomMatrix, ProtoRowLimit, ProtoColLimit, <<"Proto Qty">>)
    /\ HeaderInWindow(BomMatrix, ProtoRowLimit, ProtoColLimit, <<"Proto Price">>)

\* a column-A cell of 'Missing Notes' reads '<digits>. ... Proto Pricing No Cost'
NumberedProtoPricingSection ==
    /\ HasSheet(workbook, MissingNotes)
    /\ \E rc \in DOMAIN SheetNamed(workbook, MissingNotes) :
          LET v == SheetNamed(workbook, MissingNotes)[rc].value IN
          /\ rc[2] = 1 /\ IsStr(v)
          /\ Contains(v.s, <<"Proto Pricing No Cost">>)
          /\ FirstIndex(strip(v.s), ".") > 1
          /\ isdigit(strip(SubSeq(strip(v.s), 1, FirstIndex(strip(v.s), ".") - 1)))

\* the counterpart each proto rule looks for
CounterpartPresent ==
    CASE pc \in {"rule11", "rule15"} -> HasSheet(workbook, CbomProto)
      [] pc = "rule12" ->
            HeaderInWindow(Summary, Rule12RowLimit, Rule12ColLimit, <<"Proto Volume">>)
      [] pc = "rule13" -> NumberedProtoPricingSection
      [] pc = "rule14" -> HasSheet(workbook, ExInvProto)

\* the sheet each proto rule needs before it compares anything
PrerequisiteSheet ==
    CASE pc = "rule12" -> Summary
      [] pc = "rule13" -> MissingNotes
      [] pc \in {"rule11", "rule14", "rule15"} -> BomMatrix

ProtoRuleRan ==
    /\ pc \in {"rule11", "rule12", "rule13", "rule14", "rule15"}
    /\ HasSheet(workbook, PrerequisiteSheet)

\* C13: after one of Rules 11 to 15 has run on a workbook holding the rule's
\* prerequisite sheet, the rule's one record is PASS exactly when the proto
\* signal (both 'Proto Qty' and 'Proto Price' found in the 'BOM MATRIX'
\* window) equals the presence of the rule's counterpart, and FAIL otherwise.
C13_ProtoSignalMatchesCounterpart ==
    ProtoRuleRan =>
        /\ Len(results) = 1
        /\ results[1].status \in {"PASS", "FAIL"}
        /\ results[1].status = "PASS" <=> (ProtoSignal <=> CounterpartPresent)

\* a proto rule has failed a workbook with the signal and no counterpart
C13_Witness ==
    /\ ProtoRuleRan
    /\ ProtoSignal /\ ~CounterpartPresent
    /\ results[1].status = "FAIL"

\* a proto rule has failed a workbook with a counterpart and no signal
CounterpartWithoutSignalFails ==
    /\ ProtoRuleRan
    /\ ~ProtoSignal /\ CounterpartPresent
    /\ results[1].status = "FAIL"

-----------------------------------------------------------------------------
(* run_all_validations applied to one workbook                             *)

\* a CBOM sheet with one FG section, and a Lead Time sheet naming two FG keys
SectionedCbom == CbomSheet19(TRUE, <<Str(<<"FG1">>)>>, <<Str(<<"P1">>)>>)

TwoKeyLeadTime ==
    LtSheet(<<[key |-> <<"FG1">>, total |-> Num(1)],
              [key |-> <<"FG2">>, total |-> Num(0)]>>)

\* the fixed-name sheets: none of them, all of them empty, or all of them
\* with a little content
FixedSheetSets ==
    {<<>>,
     <<<<MissingNotes, EmptySheet>>, <<AClassParts, EmptySheet>>,
       <<BomMatrix, EmptySheet>>, <<Summary, EmptySheet>>>>,
     <<<<MissingNotes, SectionedMissingNotes>>, <<AClassParts, EmptySheet>>,
       <<BomMatrix, ProtoBomMatrix>>, <<Summary, EmptySheet>>>>}

RunAllChoices ==
    [vl2 : Maybe({SectionedCbom}),
     vl1 : Maybe({EmptySheet, SectionedCbom}),
     ex_inv2 : Maybe({EmptySheet}),
     ex_inv1 : Maybe({EmptySheet}),
     lead_time : Maybe({TwoKeyLeadTime}),
     fixed : FixedSheetSets]

RunAllWorkbook(c) ==
    LET held == <<<<VL(<<"2">>), c.vl2>>, <<VL(<<"1">>), c.vl1>>,
                  <<<<ExInvVLPrefix, "2">>, c.ex_inv2>>, <<ExInv1, c.ex_inv1>>,
                  <<LeadTimeFGWise, c.lead_time>>>>
        kept == SelectSeq(held, LAMBDA h : Len(h[2]) > 0)
        sheets == [i \in 1..Len(kept) |-> <<kept[i][1], kept[i][2][1]>>] \o c.fixed
    IN Workbook([i \in 1..Len(sheets) |-> sheets[i][1]],
                [n \in {sheets[i][1] : i \in 1..Len(sheets)} |->
                    sheets[CHOOSE i \in 1..Len(sheets) : sheets[i][1] = n][2]])

InitRunAll ==
    /\ pc = "ready"
    /\ workbook \in {RunAllWorkbook(c) : c \in RunAllChoices}
    /\ results = <<>>
    /\ NoHeuristicCall /\ NoQuoteWinRun /\ NoRequest

RunAllValidations ==
    /\ pc = "ready"
    /\ results' = run_all_validations(workbook)
    /\ pc' = "done"
    /\ UNCHANGED workbook
    /\ HeuristicUnchanged /\ QuoteWinUnchanged /\ RouteUnchanged

NextRunAll == RunAllValidations

SpecRunAll == InitRunAll /\ [][NextRunAll]_vars

RuleNames ==
    <<Rule1Name, Rule2Name, Rule3Name, Rule4Name, Rule5Name, Rule6Name, Rule7Name,
      Rule8Name, Rule9Name, Rule10Name, Rule11Name, Rule12Name, Rule13Name,
      Rule14Name, Rule15Name, Rule16Name, Rule17Name, Rule18Name, Rule19Name>>

\* the positions of the records a rule contributed
RecordsOfRule(n) == {i \in 1..Len(results) : results[i].rule_name = RuleNames[n]}

\* the sheet names matching the family pattern of a per-family rule
FamilyOf(n) ==
    SelectSeq(workbook.sheetnames,
              LAMBDA name : /\ Len(name) >= 2 /\ isdigit(Tail(name))
                            /\ name[1] = (IF n \in {1, 3, 4} THEN CbomVLPrefix
                                          ELSE ExInvVLPrefix))

PerFamilyRules == {1, 3, 4, 5, 6}
GlobalRules == {2} \cup 7..18

\* C15: the list run_all_validations returns holds the records of Rules 1 to
\* 19 in ascending rule order, at least one per rule: a per-family rule (1, 3,
\* 4, 5, 6) gives one record per sheet of its family, in workbook order, or a
\* single FAIL with sheet 'N/A' when the family is empty; a global rule (2 and
\* 7 to 18) gives exactly one record.
C15_RecordsInRuleOrder ==
    pc = "done" =>
        /\ \A i \in 1..Len(results) : \E n \in 1..19 : i \in RecordsOfRule(n)
        /\ \A n \in 1..19 : RecordsOfRule(n) # {}
        /\ \A n \in 1..18 : \A i \in RecordsOfRule(n) : \A j \in RecordsOfRule(n + 1) :
              i < j
        /\ \A n \in GlobalRules : Cardinality(RecordsOfRule(n)) = 1
        /\ \A n \in PerFamilyRules :
              LET first == Min(RecordsOfRule(n)) IN
              IF Len(FamilyOf(n)) = 0
              THEN /\ Cardinality(RecordsOfRule(n)) = 1
                   /\ results[first].status = "FAIL"
                   /\ results[first].sheet_name = NotApplicable
              ELSE /\ Cardinality(RecordsOfRule(n)) = Len(FamilyOf(n))
                   /\ \A k \in 1..Len(FamilyOf(n)) :
                        results[first + k - 1].sheet_name = FamilyOf(n)[k]

\* a run on a workbook with two sheets in the CBOM family and none in the
\* Ex Inv family, Rule 19 giving two records
C15_Witness ==
    /\ pc = "done"
    /\ Len(FamilyOf(1)) = 2 /\ Len(FamilyOf(5)) = 0
    /\ Cardinality(RecordsOfRule(3)) = 2
    /\ Cardinality(RecordsOfRule(19)) = 2
    /\ Len(results) = 23

-----------------------------------------------------------------------------
(* The /validate request: validate_file                                    *)

MaxSessions == 2

\* uuid4 values: a request draws one no stored session has
SessionIds == 1..MaxSessions

ValidatorTypes == {"QUOTE_WIN", "BOM", "CSV"}

\* what openpyxl reads from the uploaded bytes: nothing when it cannot load
\* them, else the workbook (the BOM validator's view) and its active sheet
\* (the Quote Win validator's view)
Upload(file_name, loadable, wb, sheet) ==
    [file_name |-> file_name, loadable |-> loadable, workbook |-> wb,
     input_sheet |-> sheet]

FullBomWorkbook ==
    RunAllWorkbook([vl2 |-> <<SectionedCbom>>, vl1 |-> <<EmptySheet>>,
                    ex_inv2 |-> <<>>, ex_inv1 |-> <<EmptySheet>>,
                    lead_time |-> <<TwoKeyLeadTime>>,
                    fixed |-> <<<<MissingNotes, SectionedMissingNotes>>,
                                <<AClassParts, EmptySheet>>,
                                <<BomMatrix, ProtoBomMatrix>>,
                                <<Summary, EmptySheet>>>>])

AwardedSheet(award) ==
    InputSheet(SheetTitle,
        AwardSheet(<<Text(<<"Part Number">>), Award(<<"1">>)>>,
                   <<Str(<<"P1">>)>>, <<award>>), <<>>)

Uploads ==
    {Upload(<<"book", ".xlsx">>, TRUE, FullBomWorkbook, AwardedSheet(Num(100))),
     Upload(<<"quote", ".xlsx">>, TRUE, Workbook(<<SheetTitle>>, SheetTitle :> EmptySheet),
            AwardedSheet(None)),
     Upload(<<"torn", ".xlsx">>, FALSE, EmptyWorkbook, <<>>),
     Upload(<<"old", ".xls">>, FALSE, EmptyWorkbook, <<>>),
     Upload(<<"notes", ".txt">>, FALSE, EmptyWorkbook, <<>>)}

InitRoute ==
    /\ pc = "ready"
    /\ NoRequest
    /\ NoBomRun /\ NoHeuristicCall /\ NoQuoteWinRun

\* the request's validators are gone when it is answered with an error
NoValidatorRan ==
    /\ workbook' = EmptyWorkbook /\ results' = <<>>
    /\ input_sheet' = <<>> /\ validation_results' = <<>>
    /\ comments' = <<>> /\ fills' = {} /\ qw_results' = <<>>

\* the name is refused before anything is written
RefuseName(file) ==
    /\ ~IsExcelName(file.file_name)
    /\ response' = HTTPException(400, <<"File must be an Excel file (.xlsx or .xls)">>)
    /\ NoValidatorRan
    /\ UNCHANGED <<sessions, temp_files>>

\* an error answer that leaves the request's temp file where it was written
AnswerErrorKeepingFile(session_id, file, detail) ==
    /\ response' = HTTPException(500, detail)
    /\ NoValidatorRan
    /\ temp_files' = WriteFile(temp_files, TempPath(session_id, file.file_name), file)
    /\ UNCHANGED sessions

\* the except branch: the temp file written for the request is removed
AnswerError(session_id, file, detail) ==
    LET temp_path == TempPath(session_id, file.file_name) IN
    /\ response' = HTTPException(500, detail)
    /\ NoValidatorRan
    /\ temp_files' = RemoveFile(WriteFile(temp_files, temp_path, file), temp_path)
    /\ UNCHANGED sessions

\* the records are counted, the session stored, the temp file kept
AnswerRecords(session_id, file, validator_type, records) ==
    LET temp_path == TempPath(session_id, file.file_name) IN
    /\ temp_files' = WriteFile(temp_files, temp_path, file)
    /\ sessions' = [id \in DOMAIN sessions \cup {session_id} |->
                      IF id = session_id
                      THEN Session(temp_path, file.file_name, validator_type, records)
                      ELSE sessions[id]]
    /\ response' = ValidationResponse(session_id, records, file.file_name,
                                      validator_type)

QuoteWinRequest(session_id, file) ==
    IF ~file.loadable
    THEN AnswerError(session_id, file, <<"500", ": ", "Failed to load Excel file">>)
    ELSE LET v == AllQuoteWinValidations(Validator(file.input_sheet)) IN
         /\ input_sheet' = file.input_sheet
         /\ validation_results' = v.validation_results
         /\ comments' = v.comments
         /\ fills' = v.fills
         /\ qw_results' = QuoteWinRecords(v)
         /\ workbook' = EmptyWorkbook /\ results' = <<>>
         /\ AnswerRecords(session_id, file, "QUOTE_WIN", QuoteWinRecords(v))

BomRequest(session_id, file) ==
    IF ~file.loadable
    THEN AnswerError(session_id, file, <<"openpyxl load error">>)
    ELSE /\ workbook' = file.workbook
         /\ results' = run_all_validations(file.workbook)
         /\ input_sheet' = <<>> /\ validation_results' = <<>>
         /\ comments' = <<>> /\ fills' = {} /\ qw_results' = <<>>
         /\ AnswerRecords(session_id, file, "BOM", run_bom_validation(file.workbook))

validate_file ==
    /\ pc \in {"ready", "answered"}
    /\ \E file \in Uploads, validator_type \in ValidatorTypes,
          session_id \in SessionIds \ DOMAIN sessions :
            /\ \/ RefuseName(file)
               \/ /\ IsExcelName(file.file_name)
                  /\ CASE validator_type = "QUOTE_WIN" ->
                            QuoteWinRequest(session_id, file)
                       [] validator_type = "BOM" -> BomRequest(session_id, file)
                       [] OTHER ->
                            AnswerError(session_id, file,
                                <<"400", ": ", "Invalid validator type: ",
                                  validator_type>>)
            /\ request' = [file |-> file, validator_type |-> validator_type,
                           session_id |-> session_id]
    /\ pc' = "answered"
    /\ HeuristicUnchanged

NextRoute == validate_file

SpecRoute == InitRoute /\ [][NextRoute]_vars

\* the request just answered carried a file openpyxl cannot load
LoadFailed ==
    /\ pc = "answered"
    /\ IsExcelName(request.file.file_name)
    /\ request.validator_type \in {"QUOTE_WIN", "BOM"}
    /\ ~request.file.loadable

\* no validator of the request holds a verdict or a note of a rule
NoRuleEvaluated ==
    /\ results = <<>> /\ qw_results = <<>>
    /\ validation_results = <<>> /\ comments = <<>> /\ fills = {}

\* C16: a /validate request whose file cannot be loaded is answered with an
\* error that carries no list of results; no rule has been evaluated, the
\* session store is what it was before the request, and the temp file
\* written for the request is not in the temp directory.
C16_LoadFailureIsFatal ==
    [][LoadFailed' =>
        /\ response'.status_code = 500
        /\ "results" \notin DOMAIN response'
        /\ NoRuleEvaluated'
        /\ sessions' = sessions
        /\ TempPath(request'.session_id, request'.file.file_name) \notin DOMAIN temp_files']_vars

\* a load failure has been answered while an earlier session is stored
C16_Witness ==
    /\ LoadFailed
    /\ response.status_code = 500
    /\ DOMAIN sessions # {}
    /\ request.session_id \notin DOMAIN sessions

\* the request just answered succeeded
Succeeded == pc = "answered" /\ response.status_code = 200

\* a record without the validator_type the route adds
VerdictOf(r) ==
    ValidationResult(r.rule_name, r.sheet_name, r.status, r.expected, r.actual,
                     r.location)

\* the ordered list the rule run of the request produced
RuleRunResults ==
    IF request.validator_type = "BOM" THEN results
    ELSE [i \in 1..Len(qw_results) |-> VerdictOf(qw_results[i])]

CountWithStatus(records, status) ==
    Cardinality({i \in 1..Len(records) : records[i].status = status})

TotalsAgree(records, passed, failed, total) ==
    /\ \A i \in 1..Len(records) : records[i].status \in {"PASS", "FAIL"}
    /\ passed = CountWithStatus(records, "PASS")
    /\ failed = CountWithStatus(records, "FAIL")
    /\ passed + failed = total
    /\ total = Len(records)

\* C17: in a successful /validate response and in the session stored for it,
\* results is the list the rule run produced, in its order; every status is
\* PASS or FAIL; passed and failed count the PASS and the FAIL records, and
\* passed + failed = total = the length of results.
C17_TotalsMatchResults ==
    Succeeded =>
        /\ response.session_id \in DOMAIN sessions
        /\ sessions[response.session_id].results = response.results
        /\ [i \in 1..Len(response.results) |-> VerdictOf(response.results[i])]
                = RuleRunResults
        /\ TotalsAgree(response.results, response.passed, response.failed,
                       response.total)

\* a BOM request answered with both PASS and FAIL records
C17_Witness ==
    /\ Succeeded
    /\ request.validator_type = "BOM"
    /\ response.passed > 0 /\ response.failed > 0
    /\ response.total = 23

\* the request just answered named a validator type the route does not know
InvalidTypeRequested ==
    /\ pc = "answered"
    /\ IsExcelName(request.file.file_name)
    /\ request.validator_type \notin {"QUOTE_WIN", "BOM"}

\* C27: a /validate request with a validator_type other than 'QUOTE_WIN' or
\* 'BOM' is answered with status 400 and detail 'Invalid validator type:
\* <type>', runs no rule and stores no session.  The 400 is raised inside
\* the try block and the except branch answers 500 in its place.
C27_InvalidTypeAnswered400 ==
    [][InvalidTypeRequested' =>
        /\ response' = HTTPException(400, <<"Invalid validator type: ",
                                            request'.validator_type>>)
        /\ NoRuleEvaluated'
        /\ sessions' = sessions]_vars

\* the unknown type is answered 500, the 400 being quoted in the detail;
\* no rule runs, no session is stored and the temp file is removed
InvalidTypeAnswered500 ==
    [][InvalidTypeRequested' =>
        /\ response' = HTTPException(500, <<"400", ": ", "Invalid validator type: ",
                                            request'.validator_type>>)
        /\ NoRuleEvaluated'
        /\ sessions' = sessions
        /\ TempPath(request'.session_id, request'.file.file_name)
                \notin DOMAIN temp_files']_vars

-----------------------------------------------------------------------------
(* The literal-header rules applied to a sheet holding a variant of the    *)
(* header                                                                  *)

LiteralRules == {"rule1", "rule2", "rule3", "rule4", "rule5", "rule6", "rule8"}

\* the literal each rule looks up (for Rules 3 and 5 the first of the
\* headers built from the suffix 1)
Literal(rule) ==
    CASE rule = "rule1" -> Rule1Header(<<"1">>)
      [] rule = "rule2" -> <<"Quoted MPN">>
      [] rule = "rule3" -> Rule3Headers(<<"1">>)[1]
      [] rule = "rule4" -> <<"MOQ Cost">>
      [] rule = "rule5" -> Rule5Headers(<<"1">>)[1]
      [] rule = "rule6" -> <<"Net Ordering qty">>
      [] rule = "rule8" -> <<"Quoted MFR">>

\* the literal in another case
OtherCase(rule) ==
    CASE rule = "rule1" ->
            <<"EXT PART VOL PRICE", " ", "(", "SPLITS", ")", " ", "#", "1", " ", "(CONV.)">>
      [] rule = "rule2" -> <<"QUOTED MPN">>
      [] rule = "rule3" -> <<"ext price", " ", "#", "1", " ", "(conv.)">>
      [] rule = "rule4" -> <<"MOQ COST">>
      [] rule = "rule5" -> <<"EXCESS COST", " ", "#", "1">>
      [] rule = "rule6" -> <<"Net Ordering Qty">>
      [] rule = "rule8" -> <<"quoted mfr">>

\* the texts a cell may hold in place of the literal
Variants(rule) ==
    {Literal(rule), <<" ">> \o Literal(rule), Literal(rule) \o <<" ">>,
     <<" ">> \o Literal(rule) \o <<"\n">>, OtherCase(rule),
     Literal(rule) \o <<" ", "x">>}

\* the sheet the rule reads
LiteralSheetName(rule) ==
    CASE rule \in {"rule1", "rule3", "rule4"} -> Cbom1
      [] rule \in {"rule5", "rule6"} -> ExInv1
      [] rule \in {"rule2", "rule8"} -> MissingNotes

\* the other headers the rule requires, each over a priced cell
OtherHeaders(rule) ==
    CASE rule = "rule3" -> Tail(Rule3Headers(<<"1">>))
      [] rule = "rule5" -> Tail(Rule5Headers(<<"1">>))
      [] OTHER -> <<>>

PercentCell == Cell(Num(5), <<"0", "%">>)

\* the variant in A2 under a percentage and over a priced cell, the other
\* headers in row 2 from column B on
LiteralSheet(rule, text) ==
    SheetOf({<<1, 1, PercentCell>>, <<2, 1, Cell(Str(text), General)>>,
             <<3, 1, PricedCell>>}
            \cup UNION {HeaderColumn(OtherHeaders(rule)[i], i + 1, "below") :
                            i \in 1..Len(OtherHeaders(rule))})

LiteralWorkbooks ==
    {Workbook(<<LiteralSheetName(rule)>>,
              LiteralSheetName(rule) :> LiteralSheet(rule, text)) :
        <<rule, text>> \in UNION {{<<r, t>> : t \in Variants(r)} : r \in LiteralRules}}

InitLiteral ==
    /\ pc = "ready"
    /\ workbook \in LiteralWorkbooks
    /\ results = <<>>
    /\ NoHeuristicCall /\ NoQuoteWinRun /\ NoRequest

RunRule1OnLiteral == RunRule("rule1", validate_rule1_header_presence(workbook))
RunRule2OnLiteral == RunRule("rule2", validate_rule2_corrected_mpn(workbook))
RunRule3OnLiteral == RunRule("rule3", validate_rule3_currency_symbols_cbom(workbook))
RunRule4OnLiteral == RunRule("rule4", validate_rule4_moq_cost(workbook))
RunRule5OnLiteral == RunRule("rule5", validate_rule5_currency_symbols_ex_inv(workbook))
RunRule6OnLiteral == RunRule("rule6", validate_rule6_net_ordering_qty(workbook))
RunRule8OnLiteral == RunRule("rule8", validate_rule8_quoted_mfr(workbook))

NextLiteral ==
    \/ RunRule1OnLiteral \/ RunRule2OnLiteral \/ RunRule3OnLiteral
    \/ RunRule4OnLiteral \/ RunRule5OnLiteral \/ RunRule6OnLiteral
    \/ RunRule8OnLiteral

SpecLiteral == InitLiteral /\ [][NextLiteral]_vars

\* the rule at pc has run on a workbook holding the sheet it reads
LiteralRuleRan ==
    pc \in LiteralRules /\ HasSheet(workbook, LiteralSheetName(pc))

\* what the record says of the lookup: the header was found
TreatedAsMatch ==
    CASE pc \in {"rule1", "rule6"} -> results[1].status = "PASS"
      [] pc = "rule2" -> results[1].actual # <<"Quoted MPN header not found">>
      [] pc = "rule3" -> ~Contains(results[1].actual, Literal(pc))
      [] pc = "rule4" -> results[1].actual # <<"'MOQ Cost' header not found">>
      [] pc = "rule5" ->
            ~Contains(results[1].actual, <<"'">> \o Literal(pc) \o <<"' not found">>)
      [] pc = "rule8" -> results[1].actual # <<"Quoted MFR header not found">>

\* some cell of the sheet holds a text whose strip() is the literal
StrippedTextIsLiteral ==
    LET sheet == SheetNamed(workbook, LiteralSheetName(pc)) IN
    \E rc \in DOMAIN sheet :
        IsStr(sheet[rc].value) /\ strip(sheet[rc].value.s) = Literal(pc)

\* C18: after a literal-header rule (1, 2, 3, 4, 5, 6, 8) has run, the rule
\* has treated the sheet as holding its header exactly when some cell's text
\* with leading and trailing whitespace removed equals the literal, case
\* included.  Only Rule 4 strips the text: the others compare the cell value
\* itself, and a header with a space before or after it is not found.
C18_LiteralMatchIsStrippedEquality ==
    LiteralRuleRan => (TreatedAsMatch <=> StrippedTextIsLiteral)

\* the half that holds: a match is a cell equal to the literal up to
\* surrounding whitespace, so a text in another case is never a match
MatchImpliesStrippedEquality ==
    LiteralRuleRan => (TreatedAsMatch => StrippedTextIsLiteral)

\* every rule but Rule 4 matches exactly the cells equal to the literal
UnstrippedEqualityOutsideRule4 ==
    (LiteralRuleRan /\ pc # "rule4") =>
        (TreatedAsMatch <=>
            LET sheet == SheetNamed(workbook, LiteralSheetName(pc)) IN
            \E rc \in DOMAIN sheet :
                IsStr(sheet[rc].value) /\ sheet[rc].value.s = Literal(pc))

-----------------------------------------------------------------------------
(* Rule 3 applied to a sheet holding its first header in several cells     *)

\* the cells that may hold 'Ext Price #1 (Conv.)': three inside the first
\* rows the rule reads and one under them
OccurrencePlaces == {<<2, 2>>, <<4, 1>>, <<4, 3>>, <<Rule3RowLimit + 1, 4>>}

\* what a place holds: nothing, the header over a priced cell, or the header
\* over a plain number
OccurrenceStates == {"absent", "below", "plain"}

OccurrenceCells(rc, state) ==
    IF state = "absent" THEN {}
    ELSE {<<rc[1], rc[2], Cell(Str(Rule3Headers(<<"1">>)[1]), General)>>,
          <<rc[1] + 1, rc[2], IF state = "below" THEN PricedCell ELSE PlainCell>>}

\* the second header stands in column F over a priced cell
OccurrenceSheets ==
    {SheetOf(UNION {OccurrenceCells(rc, states[rc]) : rc \in OccurrencePlaces}
             \cup HeaderColumn(Rule3Headers(<<"1">>)[2], 6, "below")) :
        states \in [OccurrencePlaces -> OccurrenceStates]}

InitOccurrences ==
    /\ pc = "ready"
    /\ workbook \in {Workbook(<<Cbom1>>, Cbom1 :> sheet) : sheet \in OccurrenceSheets}
    /\ results = <<>>
    /\ NoHeuristicCall /\ NoQuoteWinRun /\ NoRequest

RunRule3OnOccurrences ==
    RunRule("rule3", validate_rule3_currency_symbols_cbom(workbook))

NextOccurrences == RunRule3OnOccurrences

SpecOccurrences == InitOccurrences /\ [][NextOccurrences]_vars

\* the cells of rows 1..15, columns 1..50 holding the first header
Occurrences ==
    LET sheet == SheetNamed(workbook, Cbom1) IN
    {rc \in DOMAIN sheet : /\ rc[1] <= Rule3RowLimit /\ rc[2] <= Rule3ColLimit
                           /\ sheet[rc].value = Str(Rule3Headers(<<"1">>)[1])}

\* the occurrence of the lowest row, the leftmost one of that row
LowestLeftmost ==
    CHOOSE rc \in Occurrences :
        \A other \in Occurrences :
            rc[1] < other[1] \/ (rc[1] = other[1] /\ rc[2] <= other[2])

CurrencyAround(rc) ==
    HasCurrencyNear(SheetNamed(workbook, Cbom1), rc[1], rc[2], CurrencyBelow, CurrencyAbove)

\* C19: after Rule 3 has run on a sheet holding an expected header in one or
\* more cells of its first 15 rows, the header counts as having currency
\* exactly when there is currency evidence around its occurrence of the
\* lowest row (the leftmost one of that row), whatever surrounds the others.
C19_CurrencyAroundLowestOccurrence ==
    (pc = "rule3" /\ Occurrences # {}) =>
        /\ Len(results) = 1
        /\ results[1].status = "PASS" <=> CurrencyAround(LowestLeftmost)
        /\ results[1].status = "FAIL" =>
              Contains(results[1].actual, <<"No currency format in: ">>)

\* Rule 3 has failed a sheet whose lowest occurrence has no currency around
\* it while another occurrence has
C19_Witness ==
    /\ pc = "rule3"
    /\ Cardinality(Occurrences) >= 2
    /\ ~CurrencyAround(LowestLeftmost)
    /\ \E rc \in Occurrences : CurrencyAround(rc)
    /\ results[1].status = "FAIL"

-----------------------------------------------------------------------------
(* Rule 17 applied to a 'BOM MATRIX' with a cell under 'Effective Date'    *)

\* what the cell under the header may hold
ValidityValues ==
    {None, Num(0), Num(45000), Bool(TRUE),
     Date(<<"2025", "-", "01", "-", "15", " ", "00:00:00">>),
     Str(<<"1", "2", " ", "weeks">>),
     Str(<<" ", "0", "1", "/", "1", "5", "/", "2", "0", "2", "5">>),
     Str(<<"2", "0", "2", "5", "-", "Q1">>),
     Str(<<"-">>)}

DateNumberFormat == <<"mm", "-", "dd", "-", "yy">>

ValidityFormats == {General, DateNumberFormat, <<"0", ".", "0", "0">>}

\* openpyxl reads a number formatted as a date as a native date, so no cell
\* holds a number under a date format
ValidityCells ==
    {Cell(v, f) : <<v, f>> \in
        {<<v, f>> \in ValidityValues \X ValidityFormats :
            ~(v.t = "num" /\ f = DateNumberFormat)}}

\* the header in B1 and the cell in B3; with `second`, another header in A2
\* over a native date in A3; with no header, the cell alone
ValiditySheet(headers, c) ==
    SheetOf({<<3, 2, c>>}
            \cup {<<1, 2, Text(<<"Effective Date">>)>> : h \in headers \cap {"first"}}
            \cup UNION {{<<2, 1, Text(<<"Effective Date">>)>>,
                         <<3, 1, Cell(Date(<<"2025", "-", "01", "-", "15">>),
                                      DateNumberFormat)>>} :
                            h \in headers \cap {"second"}})

ValidityWorkbooks ==
    {Workbook(<<BomMatrix>>, BomMatrix :> ValiditySheet(headers, c)) :
        headers \in {{}, {"first"}, {"first", "second"}}, c \in ValidityCells}

InitValidity ==
    /\ pc = "ready"
    /\ workbook \in ValidityWorkbooks
    /\ results = <<>>
    /\ NoHeuristicCall /\ NoQuoteWinRun /\ NoRequest

RunRule17OnValidity ==
    RunRule("rule17", validate_rule17_price_validity_date_format(workbook))

NextValidity == RunRule17OnValidity

SpecValidity == InitValidity /\ [][NextValidity]_vars

\* the cells of the header window holding an 'Effective Date' header
EffectiveDateHeaders ==
    LET sheet == SheetNamed(workbook, BomMatrix) IN
    {rc \in DOMAIN sheet : /\ rc[1] < Rule17RowLimit /\ rc[2] < Rule17ColLimit
                           /\ IsStr(sheet[rc].value)
                           /\ Contains(sheet[rc].value.s, <<"Effective Date">>)}

\* the first of them, row by row and left to right
FirstEffectiveDate ==
    CHOOSE rc \in EffectiveDateHeaders :
        \A other \in EffectiveDateHeaders \ {rc} : PlaceBefore(rc, other)

\* the number of parts of the text, cut at '/' and '-', that are digits only
RECURSIVE NumericComponents(_)
NumericComponents(text) ==
    LET cut == {i \in 1..Len(text) : text[i] \in {"/", "-"}}
        head == IF cut = {} THEN text ELSE SubSeq(text, 1, Min(cut) - 1)
        here == IF isdigit(strip(head)) THEN 1 ELSE 0
    IN IF cut = {} THEN here
       ELSE here + NumericComponents(SubSeq(text, Min(cut) + 1, Len(text)))

\* date evidence: a date token in the number format, a native date, or a
\* text with two or more numeric components separated by '/' or '-'
ShowsDateEvidence(c) ==
    \/ \E i \in 1..Len(c.number_format) :
            c.number_format[i] \in {"d", "dd", "m", "mm", "mmm", "y", "yy", "yyyy", "date"}
    \/ c.value.t = "date"
    \/ /\ IsStr(c.value)
       /\ \E i \in 1..Len(c.value.s) : c.value.s[i] \in {"/", "-"}
       /\ NumericComponents(c.value.s) >= 2

\* the cells under the first header
CellsBelowFirstHeader ==
    LET sheet == SheetNamed(workbook, BomMatrix) IN
    {CellAt(sheet, r, FirstEffectiveDate[2]) :
        r \in (FirstEffectiveDate[1] + 1)..max_row(sheet)}

Rule17Ran == pc = "rule17" /\ HasSheet(workbook, BomMatrix)

DateTextPasses ==
    /\ Rule17Ran
    /\ results[1].status = "PASS"
    /\ \A c \in CellsBelowFirstHeader :
          c.number_format = General /\ c.value.t # "date"

-----------------------------------------------------------------------------
(* The four Quote Win rules as the steps of one run, and a BOM run         *)

\* the main header row with the two Award headers asked for in columns 27
\* and 29
StepMainRow(award_headers) ==
    [c \in 1..29 |->
        IF c = 27 THEN award_headers[1]
        ELSE IF c = 29 THEN award_headers[2]
        ELSE Text(FullMainRow[c])]

\* the project cell and the two cells of column A from the data start row
ProjectPairs ==
    {<<Str(<<"Proj">>), <<Str(<<"Proj">>), Str(<<"Proj">>)>>>>,
     <<Str(<<"Proj">>), <<None, Str(<<"Proj">>)>>>>,
     <<Str(<<"Proj">>), <<None, Str(<<"Other">>)>>>>,
     <<Str(<<"Proj">>), <<Str(<<"Other">>), Str(<<"Proj">>)>>>>,
     <<Str(<<"Proj">>), <<None, None>>>>,
     <<None, <<None, None>>>>,
     <<Str(<<"proj">>), <<Str(<<"Proj">>), None>>>>,
     <<Str(<<" ", "Proj">>), <<Str(<<"Proj">>), None>>>>,
     <<Num(7), <<Str(<<"7">>), Num(7)>>>>,
     <<Num(7), <<None, Num(7)>>>>}

\* auto_filter.ref: none, or a range starting on the header comment's
\* cell, on the project cell, on the first Part Number cell
FilterRefs ==
    {<<>>,
     <<"A", "1", "2", ":", "C", "2", "0">>,
     <<"D", "3", ":", "E", "9">>,
     <<"B", "1", "8", ":", "C", "1", "9">>,
     <<"C", "5">>}

\* the two Award headers, the first Award column's cells in the two data
\* rows and the second one's cell in the first data row
AwardSetups ==
    {[headers |-> <<Award(<<"1">>), EmptyCell>>,
      first |-> <<Num(100), None>>, second |-> None],
     [headers |-> <<Award(<<"1">>), EmptyCell>>,
      first |-> <<None, None>>, second |-> None],
     [headers |-> <<Award(<<"1">>), EmptyCell>>,
      first |-> <<Num(100), Num(100)>>, second |-> None],
     [headers |-> <<Award(<<"1">>), Award(<<"2">>)>>,
      first |-> <<None, None>>, second |-> None],
     [headers |-> <<Award(<<"1">>), Award(<<"2">>)>>,
      first |-> <<None, Num(100)>>, second |-> None],
     [headers |-> <<Award(<<"1", "0">>), Award(<<"2">>)>>,
      first |-> <<None, None>>, second |-> None],
     [headers |-> <<Award(<<"2">>), Award(<<"1">>)>>,
      first |-> <<None, None>>, second |-> None]}

\* the rows a sheet can carry its main headers in (0: no header at all)
MainHeaderRows == {0, 16, 17}

\* the sheet: summary headers in row 12, main headers in main_row, the
\* project in D3, column A and the part number P1 in the two data rows
StepCells(main_row, project, setup) ==
    SheetOf({<<summary_header_row, c, Text(FullSummaryRow[c])>> :
                c \in {k \in 1..Len(FullSummaryRow) : main_row # 0}}
            \cup {<<main_row, c, StepMainRow(setup.headers)[c]>> :
                    c \in {k \in 1..29 : main_row # 0}}
            \cup {<<project_row, project_value_col, Value(project[1])>>}
            \cup {<<data_start_row - 1 + i, 1, Value(project[2][i])>> : i \in 1..2}
            \cup {<<data_start_row - 1 + i, 2, Text(<<"P1">>)>> : i \in 1..2}
            \cup {<<data_start_row - 1 + i, 27, Value(setup.first[i])>> : i \in 1..2}
            \cup {<<data_start_row, 29, Value(setup.second)>>})

StepSheets ==
    {InputSheet(SheetTitle, StepCells(main_row, project, setup), ref) :
        main_row \in MainHeaderRows, project \in ProjectPairs,
        setup \in AwardSetups, ref \in FilterRefs}

StepWorkbooks == {FullBomWorkbook, Workbook(<<SheetTitle>>, SheetTitle :> EmptySheet)}

\* a Quote Win validator after load_file, or a BOM validator after its
\* constructor
InitRuleSteps ==
    /\ NoHeuristicCall /\ NoRequest
    /\ \/ /\ pc = "ready"
          /\ input_sheet \in StepSheets
          /\ validation_results = InitialValidationResults
          /\ comments = <<>>
          /\ fills = {}
          /\ qw_results = <<>>
          /\ NoBomRun
       \/ /\ pc = "bom_ready"
          /\ workbook \in StepWorkbooks
          /\ results = <<>>
          /\ NoQuoteWinRun

\* the validator as the run has left it so far
CurrentValidator ==
    [input_sheet |-> input_sheet, validation_results |-> validation_results,
     comments |-> comments, fills |-> fills]

\* the validator's state after a rule
Becomes(v) ==
    /\ input_sheet' = v.input_sheet
    /\ validation_results' = v.validation_results
    /\ comments' = v.comments
    /\ fills' = v.fills
    /\ UNCHANGED qw_results
    /\ BomUnchanged /\ HeuristicUnchanged /\ RouteUnchanged

StepHeaders ==
    /\ pc = "ready" /\ pc' = "headers"
    /\ Becomes(validate_headers(CurrentValidator))

StepProjectName ==
    /\ pc = "headers" /\ pc' = "project"
    /\ Becomes(validate_project_name(CurrentValidator))

StepFilters ==
    /\ pc = "project" /\ pc' = "filters"
    /\ Becomes(validate_filters(CurrentValidator))

StepAwards ==
    /\ pc = "filters" /\ pc' = "awards"
    /\ Becomes(validate_awards(CurrentValidator))

\* the four records are built from validation_results
StepRecords ==
    /\ pc = "awards" /\ pc' = "done"
    /\ qw_results' = QuoteWinRecords(CurrentValidator)
    /\ UNCHANGED <<input_sheet, validation_results, comments, fills>>
    /\ BomUnchanged /\ HeuristicUnchanged /\ RouteUnchanged

\* run_all_validations of the BOM validator
StepBomRules ==
    /\ pc = "bom_ready" /\ pc' = "bom_done"
    /\ results' = run_all_validations(workbook)
    /\ UNCHANGED workbook
    /\ QuoteWinUnchanged /\ HeuristicUnchanged /\ RouteUnchanged

NextRuleSteps ==
    \/ StepHeaders
    \/ StepProjectName
    \/ StepFilters
    \/ StepAwards
    \/ StepRecords
    \/ StepBomRules

SpecRuleSteps == InitRuleSteps /\ [][NextRuleSteps]_vars

\* the value of the labeled project cell
LabeledProject == CellAt(input_sheet.cells, project_row, project_value_col).value

\* the rows of column A, from the data start row down, that hold a value
ProjectDataRows ==
    {r \in data_start_row..max_row(input_sheet.cells) :
        CellAt(input_sheet.cells, r, 1).value.t # "none"}

\* the first value of the Project data column (None when it holds none)
FirstProjectData ==
    IF ProjectDataRows = {} THEN None
    ELSE CellAt(input_sheet.cells, Min(ProjectDataRows), 1).value

ProjectCellPlace == <<project_row, project_value_col>>

ProjectNameFoundBelowEmptyRow ==
    /\ pc = "project"
    /\ CellAt(input_sheet.cells, data_start_row, 1).value = None
    /\ FirstProjectData = LabeledProject
    /\ LabeledProject # None
    /\ validation_results.project_name_validation.passed

\* the cell a filter range starts on
FilterStartPlace ==
    LET ref == input_sheet.auto_filter IN
    CoordinateOf(IF FirstIndex(ref, ":") # 0 THEN SplitHead(ref, ":") ELSE ref)

\* C22: validate_filters fails iff the active sheet declares an auto-filter
\* range, and the failure message (of the rule and of the run's record)
\* contains that range; with no range declared the rule passes and writes
\* nothing to the sheet.
C22_FiltersFailIffRangeDeclared ==
    [][/\ pc' = "filters" =>
            LET ref == input_sheet.auto_filter
                filter_val == validation_results'.filter_validation
            IN /\ ~filter_val.passed <=> ref # <<>>
               /\ ref # <<>> => Contains(filter_val.message, ref)
               /\ ref = <<>> => /\ comments' = comments
                                /\ fills' = fills
                                /\ input_sheet' = input_sheet
       /\ pc' = "done" =>
            LET ref == input_sheet.auto_filter IN
            /\ qw_results'[3].status = "FAIL" <=> ref # <<>>
            /\ ref # <<>> => Contains(qw_results'[3].actual, ref)]_vars

\* a declared range D3:E9 has failed the rule and put its message on D3
C22_Witness ==
    /\ pc = "filters"
    /\ input_sheet.auto_filter = <<"D", "3", ":", "E", "9">>
    /\ ~validation_results.filter_validation.passed
    /\ comments[FilterStartPlace]
        = <<"Filter applied at ", "D", "3", ":", "E", "9", " ", EnDash,
            " please remove the filter.">>

\* a rule that has passed has left every comment and fill as it was
PassedLeavesSheetAlone(rule_val) ==
    rule_val.passed => comments' = comments /\ fills' = fills

\* C25: no rule changes a cell's value; the BOM rules write nothing to the
\* workbook; a Quote Win rule (headers, project name, filters, awards)
\* changes a comment or a fill only in a step that leaves that rule failed,
\* and building the records writes nothing.
C25_RulesWriteOnlyOnFail ==
    [][/\ input_sheet' = input_sheet
       /\ workbook' = workbook
       /\ pc' = "headers" =>
            PassedLeavesSheetAlone(validation_results'.header_validation)
       /\ pc' = "project" =>
            PassedLeavesSheetAlone(validation_results'.project_name_validation)
       /\ pc' = "filters" =>
            PassedLeavesSheetAlone(validation_results'.filter_validation)
       /\ pc' = "awards" =>
            PassedLeavesSheetAlone(validation_results'.award_validation)
       /\ pc' \in {"done", "bom_done"} => comments' = comments /\ fills' = fills]_vars

\* headers and project name have passed and written nothing; the filter
\* rule has failed and its cell is the only one marked
C25_Witness ==
    /\ pc = "filters"
    /\ validation_results.header_validation.passed
    /\ validation_results.project_name_validation.passed
    /\ ~validation_results.filter_validation.passed
    /\ DOMAIN comments = {FilterStartPlace}
    /\ fills = {FilterStartPlace}

\* a BOM run has given its records and the workbook is the one loaded
BomRunLeavesWorkbook ==
    /\ pc = "bom_done"
    /\ Len(results) > 0
    /\ workbook = FullBomWorkbook

\* the row the docstrings, the Rule 1 'expected' text and the rule catalog
\* give for the main headers
DocumentedHeaderRow == 16

\* every required header of a row's list, static and dynamic, is in the row
RowComplete(row, static, patterns) ==
    /\ MissingStatic(static, RowHeaders(input_sheet.cells, row)) = <<>>
    /\ MissingDynamicGroups(patterns, RowHeaders(input_sheet.cells, row)) = <<>>

\* C26: the header rule and the award rule read the main headers from row
\* 16 and the summary headers from row 12: a sheet carrying every required
\* summary header in row 12 and every required main header in row 16 passes
\* the header rule, and a part number with no 100 under the 'Award #N'
\* header of row 16 fails the award rule.  The code reads row 17.
C26_MainHeadersInRow16 ==
    /\ (/\ pc = "headers"
        /\ RowComplete(summary_header_row, required_summary_static_headers,
                       required_summary_dynamic_patterns)
        /\ RowComplete(DocumentedHeaderRow, required_static_headers,
                       required_dynamic_patterns))
            => validation_results.header_validation.passed
    /\ (/\ pc = "awards"
        /\ CellAt(input_sheet.cells, DocumentedHeaderRow, 2) = Text(<<"Part Number">>)
        /\ CellAt(input_sheet.cells, DocumentedHeaderRow, 27) = Award(<<"1">>)
        /\ \A r \in data_start_row..max_row(input_sheet.cells) :
                ~Holds100(CellAt(input_sheet.cells, r, 27).value))
            => ~validation_results.award_validation.passed

\* the header rule passes iff rows 12 and 17 carry the required headers
HeadersReadFromRow17 ==
    pc = "headers" =>
        (validation_results.header_validation.passed
            <=> /\ RowComplete(summary_header_row, required_summary_static_headers,
                               required_summary_dynamic_patterns)
                /\ RowComplete(header_row, required_static_headers,
                               required_dynamic_patterns))

\* a sheet with its main headers in row 16 has been failed by the header rule
Row16SheetFailsHeaders ==
    /\ pc = "headers"
    /\ RowComplete(DocumentedHeaderRow, required_static_headers,
                   required_dynamic_patterns)
    /\ ~validation_results.header_validation.passed

\* the places of fixed rules' comments
HeaderCommentPlace == <<summary_header_row, 1>>

FilterDeclared == input_sheet.auto_filter # <<>>

FilterMessage ==
    <<"Filter applied at ">> \o input_sheet.auto_filter
        \o <<" ", EnDash, " please remove the filter.">>

\* the filter rule wrote to the place
FilterWroteTo(place) == FilterDeclared /\ FilterStartPlace = place

\* the Award columns of the header row under which the part number has no
\* row holding 100
ColumnsWithoutAward(cells, part_col, part) ==
    {col \in AwardColumnsOfHeaderRow(cells) :
        HundredRows(cells, part_col, part, col) = {}}

\* the number an Award column's header carries
AwardNumberOfColumn(cells, col) ==
    int(Tail(strip(CellAt(cells, header_row, col).value.s)))

\* the award rule wrote to the place: the first Part Number cell of a part
\* number lacking an award
AwardWroteTo(place) ==
    LET cells == input_sheet.cells IN
    /\ AwardColumnsOfHeaderRow(cells) # {}
    /\ PartNumberColumnsOfHeaderRow(cells) # {}
    /\ \E part \in DistinctParts(cells, Min(PartNumberColumnsOfHeaderRow(cells))) :
        LET part_col == Min(PartNumberColumnsOfHeaderRow(cells)) IN
        /\ ColumnsWithoutAward(cells, part_col, part) # {}
        /\ place = <<Min(RowsOfPart(cells, part_col, part)), part_col>>

\* C30: after the four rules the comment a cell keeps is that of the last
\* write in the order headers, project name, filters, awards (Award
\* columns by ascending number).  The first Part Number cell of a part
\* number with no 100 in several Award columns names only the
\* highest-numbered of them; a filter comment replaces the header comment
\* and the project comment on the cell it shares with them; the header and
\* project comments stay where no later rule wrote.
C30_LastWriteKept ==
    pc \in {"awards", "done"} =>
        LET cells == input_sheet.cells IN
        /\ (AwardColumnsOfHeaderRow(cells) # {} /\ PartNumberColumnsOfHeaderRow(cells) # {}) =>
            LET part_col == Min(PartNumberColumnsOfHeaderRow(cells)) IN
            \A part \in DistinctParts(cells, part_col) :
                LET lacking == ColumnsWithoutAward(cells, part_col, part) IN
                lacking # {} =>
                    \E top \in lacking :
                        /\ \A col \in lacking :
                            AwardNumberOfColumn(cells, col) <= AwardNumberOfColumn(cells, top)
                        /\ comments[<<Min(RowsOfPart(cells, part_col, part)), part_col>>]
                            = <<"Award #">> \o Tail(strip(CellAt(cells, header_row, top).value.s))
                                \o <<" is not present for Part Number: ">> \o part
        /\ \A place \in {FilterStartPlace : b \in {FilterDeclared} \ {FALSE}} :
                ~AwardWroteTo(place) => comments[place] = FilterMessage
        /\ (/\ ~validation_results.header_validation.passed
            /\ ~FilterWroteTo(HeaderCommentPlace)
            /\ ~AwardWroteTo(HeaderCommentPlace))
                => comments[HeaderCommentPlace][1] = "Headers are not matching."
        /\ (/\ ~validation_results.project_name_validation.passed
            /\ ~FilterWroteTo(ProjectCellPlace)
            /\ ~AwardWroteTo(ProjectCellPlace))
                => comments[ProjectCellPlace][1] = "Project name not matching."

\* the filter range starts on the first Part Number cell and the part
\* number has no 100 under 'Award #10' (left) nor 'Award #2' (right): of the
\* three comments written to B18 the one naming Award #10 is kept
C30_Witness ==
    /\ pc = "done"
    /\ FilterWroteTo(<<data_start_row, 2>>)
    /\ CellAt(input_sheet.cells, header_row, 27) = Award(<<"1", "0">>)
    /\ CellAt(input_sheet.cells, header_row, 29) = Award(<<"2">>)
    /\ comments[<<data_start_row, 2>>]
        = <<"Award #", "1", "0", " is not present for Part Number: ", "P1">>

\* the filter range starts on A12 after the header rule failed: A12 keeps
\* the filter comment
FilterCommentReplacesHeaderComment ==
    /\ pc = "done"
    /\ ~validation_results.header_validation.passed
    /\ FilterWroteTo(HeaderCommentPlace)
    /\ comments[HeaderCommentPlace] = FilterMessage

-----------------------------------------------------------------------------
(* The session routes: /validate, /export/csv, /export/excel, /save and    *)
(* DELETE /session/{session_id}                                            *)

SessionNotFound == HTTPException(404, <<"Session not found">>)

\* the header row and one row per record
ReportRows(records) ==
    << <<"Rule Name", "Sheet Name", "Status", "Expected", "Actual", "Location">> >>
    \o [i \in 1..Len(records) |->
            <<records[i].rule_name, records[i].sheet_name, records[i].status,
              records[i].expected, records[i].actual, records[i].location>>]

StreamingResponse(media_type, filename, content) ==
    [status_code |-> 200, media_type |-> media_type, filename |-> filename,
     content |-> content]

\* file_name.replace('.xlsx', '_validated.xlsx')
ValidatedName(file_name) ==
    [i \in 1..Len(file_name) |->
        IF file_name[i] = ".xlsx" THEN "_validated.xlsx" ELSE file_name[i]]

\* a session request leaves the validators of the last /validate as they were
SessionRequest(op, session_id) ==
    /\ request' = [op |-> op, session_id |-> session_id]
    /\ pc' = "answered"
    /\ BomUnchanged /\ HeuristicUnchanged /\ QuoteWinUnchanged

export_csv ==
    /\ pc = "answered"
    /\ \E session_id \in SessionIds :
        /\ SessionRequest("export_csv", session_id)
        /\ response' =
            IF session_id \notin DOMAIN sessions THEN SessionNotFound
            ELSE StreamingResponse("text/csv", <<"validation_report", ".csv">>,
                                   ReportRows(sessions[session_id].results))
        /\ UNCHANGED <<sessions, temp_files>>

export_excel ==
    /\ pc = "answered"
    /\ \E session_id \in SessionIds :
        /\ SessionRequest("export_excel", session_id)
        /\ response' =
            IF session_id \notin DOMAIN sessions THEN SessionNotFound
            ELSE StreamingResponse(
                    "application/vnd.openxmlformats-officedocument.spreadsheetml.sheet",
                    <<"validation_report", ".xlsx">>,
                    [title |-> <<"Validation Report">>,
                     rows |-> ReportRows(sessions[session_id].results)])
        /\ UNCHANGED <<sessions, temp_files>>

\* the bytes at the session's file_path are returned as they are on disk
save_validated_file ==
    /\ pc = "answered"
    /\ \E session_id \in SessionIds :
        /\ SessionRequest("save", session_id)
        /\ response' =
            IF session_id \notin DOMAIN sessions THEN SessionNotFound
            ELSE IF sessions[session_id].validator_type # "QUOTE_WIN"
            THEN HTTPException(400, <<"Save is only available for Quote Win validator">>)
            ELSE IF sessions[session_id].file_path \notin DOMAIN temp_files
            THEN HTTPException(500, <<"No such file or directory">>)
            ELSE StreamingResponse(
                    "application/vnd.openxmlformats-officedocument.spreadsheetml.sheet",
                    ValidatedName(sessions[session_id].file_name),
                    temp_files[sessions[session_id].file_path])
        /\ UNCHANGED <<sessions, temp_files>>

delete_session ==
    /\ pc = "answered"
    /\ \E session_id \in SessionIds :
        /\ SessionRequest("delete_session", session_id)
        /\ IF session_id \in DOMAIN sessions
           THEN /\ temp_files' = RemoveFile(temp_files, sessions[session_id].file_path)
                /\ sessions' = [id \in DOMAIN sessions \ {session_id} |-> sessions[id]]
           ELSE UNCHANGED <<sessions, temp_files>>
        /\ response' = [message |-> <<"Session deleted">>]

NextSession ==
    \/ validate_file
    \/ export_csv
    \/ export_excel
    \/ save_validated_file
    \/ delete_session

SpecSession == InitRoute /\ [][NextSession]_vars

\* the comments and fills a reader finds in uploaded bytes: those the
\* validator starts from after load_file
StoredAnnotations(file) ==
    [comments |-> Validator(file.input_sheet).comments,
     fills |-> Validator(file.input_sheet).fills]

\* the request answered by this step was `op` for the session id
Answers(op, session_id) ==
    /\ "op" \in DOMAIN request'
    /\ request'.op = op
    /\ request'.session_id = session_id

\* the session was created by the /validate request answered just before
\* this step, and a Quote Win rule failed in it
JustValidatedWithFailure(session_id) ==
    /\ pc = "answered"
    /\ "file" \in DOMAIN request
    /\ request.validator_type = "QUOTE_WIN"
    /\ response.status_code = 200
    /\ response.session_id = session_id
    /\ \E i \in 1..Len(qw_results) : qw_results[i].status = "FAIL"

\* C24: the file /save returns for a Quote Win session in which a rule
\* failed carries the comments and fills the failing rules attached to the
\* workbook during the run.  The run never saves the annotated workbook:
\* /save returns the uploaded bytes.
C24_SavedFileCarriesAnnotations ==
    [][\A session_id \in SessionIds :
        (/\ JustValidatedWithFailure(session_id)
         /\ Answers("save", session_id)
         /\ response'.status_code = 200) =>
            /\ StoredAnnotations(response'.content).comments = comments
            /\ StoredAnnotations(response'.content).fills = fills]_vars

\* /save answers a Quote Win session with the bytes that were uploaded,
\* under the name with '_validated' added
SaveReturnsUploadedBytes ==
    [][\A session_id \in SessionIds :
        (/\ JustValidatedWithFailure(session_id)
         /\ Answers("save", session_id)) =>
            /\ response'.status_code = 200
            /\ response'.content = request.file
            /\ response'.filename
                = SubSeq(request.file.file_name, 1, Len(request.file.file_name) - 1)
                    \o <<"_validated.xlsx">>
            /\ comments # <<>>]_vars

ExportOrSave == {"export_csv", "export_excel", "save"}

\* C28: an export or save request succeeds only for a session id in the
\* store, and the store holds exactly the ids returned by a successful
\* /validate and not deleted since: an id enters it only with the
\* successful /validate that returned it and leaves it only with its
\* delete_session.  For an id not in the store export and save answer 404
\* 'Session not found' and leave store and temp directory unchanged.
\* delete_session removes the entry and its temp file, keeps every other
\* session, and for an id not in the store succeeds changing nothing.
C28_SessionLifecycle ==
    [][/\ \A session_id \in SessionIds, op \in ExportOrSave :
            Answers(op, session_id) =>
                /\ response'.status_code = 200 => session_id \in DOMAIN sessions
                /\ session_id \notin DOMAIN sessions =>
                    /\ response' = SessionNotFound
                    /\ sessions' = sessions
                    /\ temp_files' = temp_files
       /\ \A session_id \in SessionIds :
            Answers("delete_session", session_id) =>
                /\ response' = [message |-> <<"Session deleted">>]
                /\ session_id \notin DOMAIN sessions'
                /\ session_id \in DOMAIN sessions =>
                    /\ sessions[session_id].file_path \in DOMAIN temp_files
                    /\ sessions[session_id].file_path \notin DOMAIN temp_files'
                    /\ \A other \in DOMAIN sessions \ {session_id} :
                        /\ other \in DOMAIN sessions'
                        /\ sessions'[other] = sessions[other]
                        /\ sessions[other].file_path \in DOMAIN temp_files'
                /\ session_id \notin DOMAIN sessions =>
                    sessions' = sessions /\ temp_files' = temp_files
       /\ \A session_id \in DOMAIN sessions' \ DOMAIN sessions :
            /\ "file" \in DOMAIN request'
            /\ response'.status_code = 200
            /\ response'.session_id = session_id
       /\ \A session_id \in DOMAIN sessions \ DOMAIN sessions' :
            Answers("delete_session", session_id)]_vars

\* session 1 has been deleted while session 2 is stored, and an export of
\* session 1 has been answered 404
C28_Witness ==
    /\ pc = "answered"
    /\ DOMAIN sessions = {2}
    /\ "op" \in DOMAIN request
    /\ request.op = "export_csv"
    /\ request.session_id = 1
    /\ response = SessionNotFound
    /\ DOMAIN temp_files = {sessions[2].file_path}

\* an export of a stored session has been answered with its report
ExportOfStoredSession ==
    /\ pc = "answered"
    /\ "op" \in DOMAIN request
    /\ request.op = "export_excel"
    /\ request.session_id \in DOMAIN sessions
    /\ response.status_code = 200
    /\ Len(response.content.rows) = 1 + Len(sessions[request.session_id].results)

-----------------------------------------------------------------------------
(* Rule 2 applied to 'Missing Notes' sheets with and without the section   *)

\* the section header in A1, as the cell's whole text or inside it
MpnSections ==
    {<<>>,
     <<Text(<<"Corrected MPN Mentioned">>)>>,
     <<Text(<<"3", ".", " ", "Corrected MPN Mentioned">>)>>}

\* where the 'Quoted MPN' sub-header stands: nowhere, under the section's
\* row, or further right and down
QuotedMpnPlaces == {<<>>, <<<<2, 1>>>>, <<<<4, 3>>>>}

\* the cell under the sub-header
QuotedMpnValues == {None, Str(<<"ABC123">>), Str(<<" ">>), Num(0), Num(42)}

\* a 'Corrected MPN' sub-header in B2, or none
CorrectedSubHeaders == {<<>>, <<Text(<<"Corrected MPN">>)>>}

\* the value stands under the sub-header, or in A3 when there is none
MpnSheet(section, quoted, value, corrected) ==
    SheetOf({<<1, 1, section[i]>> : i \in 1..Len(section)}
            \cup {<<quoted[i][1], quoted[i][2], Text(<<"Quoted MPN">>)>> :
                    i \in 1..Len(quoted)}
            \cup {<<quoted[i][1] + 1, quoted[i][2], Value(value)>> : i \in 1..Len(quoted)}
            \cup {<<3, 1, Value(value)>> : i \in {1} \ (1..Len(quoted))}
            \cup {<<2, 2, corrected[i]>> : i \in 1..Len(corrected)})

MpnWorkbooks ==
    {Workbook(<<MissingNotes>>, MissingNotes :> MpnSheet(section, quoted, value, corrected)) :
        section \in MpnSections, quoted \in QuotedMpnPlaces,
        value \in QuotedMpnValues, corrected \in CorrectedSubHeaders}

InitQuotedMpn ==
    /\ pc = "ready"
    /\ workbook \in MpnWorkbooks
    /\ results = <<>>
    /\ NoHeuristicCall /\ NoQuoteWinRun /\ NoRequest

RunRule2OnNotes ==
    /\ pc = "ready"
    /\ results' = validate_rule2_corrected_mpn(workbook)
    /\ pc' = "done"
    /\ UNCHANGED workbook
    /\ HeuristicUnchanged /\ QuoteWinUnchanged /\ RouteUnchanged

NextQuotedMpn == RunRule2OnNotes

SpecQuotedMpn == InitQuotedMpn /\ [][NextQuotedMpn]_vars

NotesSheet == SheetNamed(workbook, MissingNotes)

\* the cells of the search window holding text
NotesTextPlaces ==
    {rc \in DOMAIN NotesSheet :
        /\ rc[1] <= Rule2RowLimit /\ rc[2] <= NotesColLimit
        /\ NotesSheet[rc].value.t = "str"}

\* the cells whose text contains the section's name
MpnSectionPlaces ==
    {rc \in NotesTextPlaces :
        Contains(NotesSheet[rc].value.s, <<"Corrected MPN Mentioned">>)}

\* the 'Quoted MPN' sub-headers with a non-blank value in a cell below
QuotedMpnWithValues ==
    {rc \in NotesTextPlaces :
        /\ NotesSheet[rc].value.s = <<"Quoted MPN">>
        /\ \E r \in (rc[1] + 1)..max_row(NotesSheet) :
            LET value == CellAt(NotesSheet, r, rc[2]).value IN
            /\ r < rc[1] + ValuesBelowLimit
            /\ Truthy(value)
            /\ strip(StrOf(value)) # <<>>}

NoCorrectedSubHeader ==
    \A rc \in NotesTextPlaces : NotesSheet[rc].value.s # <<"Corrected MPN">>

\* C29: Rule 2 gives PASS only if a 'Quoted MPN' sub-header with at least
\* one non-empty value below it stands under a 'Corrected MPN Mentioned'
\* section of 'Missing Notes' and no 'Corrected MPN' sub-header is in the
\* search window.  The code never uses what it found of the section: a
\* sheet without it passes.
C29_QuotedMpnUnderSection ==
    (pc = "done" /\ results[1].status = "PASS") =>
        /\ \E section \in MpnSectionPlaces, quoted \in QuotedMpnWithValues :
                section[1] < quoted[1]
        /\ NoCorrectedSubHeader

\* Rule 2 gives PASS iff a 'Quoted MPN' sub-header has a non-empty value
\* below it and no 'Corrected MPN' sub-header is in the window, with or
\* without the section
Rule2PassWithoutSection ==
    pc = "done" =>
        /\ Len(results) = 1
        /\ results[1].status = "PASS"
                <=> QuotedMpnWithValues # {} /\ NoCorrectedSubHeader

\* a sheet without the section has passed
SectionlessSheetPassed ==
    /\ pc = "done"
    /\ MpnSectionPlaces = {}
    /\ results[1].status = "PASS"

====
